---- MODULE Spec2Model ----
(***************************************************************************)
(* Verification model of the ssmm market maker: the fill journal           *)
(* (src/pnl_db.py), the theo derivation and adaptive pricer (src/mm.py)    *)
(* and the quoting / order-lifecycle core (src/dashboard.py).              *)
(*                                                                         *)
(* Numbers: cents are integers; theos, edges and odds, which the code      *)
(* keeps as floats, are fixed-point integers (tenths of a cent for theo    *)
(* and edge, hundredths for decimal odds). Hedge P&L and net P&L are kept  *)
(* in cents. Python None / SQL NULL is NULL for text and None for numbers. *)
(***************************************************************************)
EXTENDS Integers, Sequences, FiniteSets, TLC

VARIABLES
    now,            \* wall clock read by time.time() / datetime.utcnow()
    fills_tbl,      \* table fills, in storage (rowid) order
    pnl_matches,    \* table pnl_matches, keyed by match id
    hedges,         \* table hedges, in storage order
    last_insert,    \* history: the last insert_fill call and what it returned
    pnl_out,        \* history: the last calculate_match_pnl call and what it returned
    match,          \* matches["M1"]: the Match dataclass, or absent
    orders,         \* dict orders: order key (leg) -> OrderState
    overbid_since,  \* dict overbid_since: order key -> time the overbid was first seen
    pou,            \* per key: the place_or_update coroutine holding the key's lock
    waiting,        \* per key: the place_or_update coroutine waiting for the key's lock
    mcancel,        \* per key: the cancel_one coroutine of cancel_match_orders in flight
    resting,        \* exchange: the account's resting orders
    next_order_id,  \* exchange: the id the next accepted order gets
    fill_queue,     \* stream: fill messages not yet handled by on_fill
    next_trade_id,  \* exchange: the id the next trade gets
    shutdown_done,  \* global _shutdown_done
    phase,          \* process: running, signalled, down (lifespan left), exited
    emergency_runs, \* history: termination passes that got past the one-shot flag
    term_known,     \* history: order ids in the local map or listed when a pass got past the flag
    attempted,      \* history: order ids a termination pass called cancel_order on
    orderbooks,     \* KalshiWebSocket.orderbooks[ticker]: per side the list of [price, qty]
    book_state,     \* exchange: the book of the ticker, per side the quantity at each price
    book_msg,       \* history: the last stream message _handle_message processed
    price_call,     \* history: the last calculate_adaptive_price call and its result
    start_pc,       \* api_start_match / api_start_all_matches awaiting ws_client.subscribe
    key_locks,      \* dict order_locks, the asyncio.Lock of each key and the requests at it
    ws_state,       \* KalshiWebSocket: connection, subscribed tickers, cache, listen loop
    summary_out     \* history: the last get_pnl_summary call and what it returned

lvars == <<key_locks, ws_state, summary_out>>
jvars == <<fills_tbl, pnl_matches, hedges, last_insert, pnl_out>>
ovars == <<orders, overbid_since, pou, waiting, mcancel, resting, next_order_id>>
fvars == <<fill_queue, next_trade_id>>
tvars == <<shutdown_done, phase, emergency_runs, term_known, attempted>>
qvars == <<match, orders, overbid_since, pou, waiting, mcancel, resting, next_order_id,
           fill_queue, next_trade_id, shutdown_done, phase, emergency_runs,
           term_known, attempted>>
bvars == <<orderbooks, book_state, book_msg>>
vars == <<now, fills_tbl, pnl_matches, hedges, last_insert, pnl_out, match, orders,
          overbid_since, pou, waiting, mcancel, resting, next_order_id, fill_queue,
          next_trade_id, shutdown_done, phase, emergency_runs, term_known,
          attempted, orderbooks, book_state, book_msg, price_call, start_pc,
          key_locks, ws_state, summary_out>>

-----------------------------------------------------------------------------
(* Bounds and value domains *)

MaxTime == 1            \* clock values 0..MaxTime
MaxFillIds == 2         \* fill ids of the journal specification
MaxPnlFills == 3        \* rows of the fills table in the P&L specification
MaxOrders == 2          \* orders the exchange accepts in one behaviour
MaxTrades == 1          \* trades the exchange executes in one behaviour
ClockStep == 10         \* seconds between two clock values
MaxLegs == 2            \* order keys of the match the model follows
MaxQty == 2             \* contracts at one price level of the streamed book
MaxReqs == 4            \* place_or_update calls of the lock specification
MaxInbox == 2           \* stream messages received and not yet consumed
MaxLongTime == 3        \* clock values 0..MaxLongTime of the retest specification
MaxLedger == 4          \* contracts the ledger holds once the stream repeated fills

NULL == "NULL"
None == 0 - 1

MatchIds == {"M1", "M2"}
Tickers == {"TA", "TB", "TC"}
Sides == {"yes", "no"}

Min(a, b) == IF a < b THEN a ELSE b
Max(a, b) == IF a > b THEN a ELSE b

RECURSIVE SumSeq(_)
SumSeq(s) == IF s = <<>> THEN 0 ELSE Head(s) + SumSeq(Tail(s))

-----------------------------------------------------------------------------
(* src/pnl_db.py: the fills table *)

HasFill(tbl, id) == \E i \in 1..Len(tbl) : tbl[i].fill_id = id

FillRow(tbl, id) == tbl[CHOOSE i \in 1..Len(tbl) : tbl[i].fill_id = id]

\* The NOT NULL columns of the schema that a caller can leave unset.
NotNullViolation(a) == a.price = None \/ a.count = None

\* Faulty variant of insert_fill_tbl: the upsert refreshes synced_at as well.
insert_fill_tbl_touch(tbl, a, t) ==
    IF NotNullViolation(a) THEN tbl
    ELSE IF HasFill(tbl, a.fill_id)
         THEN [i \in 1..Len(tbl) |->
                 IF tbl[i].fill_id = a.fill_id
                 THEN [tbl[i] EXCEPT !.match_id = a.match_id, !.synced_at = t]
                 ELSE tbl[i]]
         ELSE Append(tbl, [fill_id |-> a.fill_id, ticker |-> a.ticker, side |-> a.side,
                           price |-> a.price, count |-> a.count, fee_cost |-> a.fee_cost,
                           created_time |-> a.created_time, match_id |-> a.match_id,
                           synced_at |-> t])

\* INSERT ... ON CONFLICT(id) DO UPDATE SET match_id = excluded.match_id,
\* executed at clock t. An IntegrityError (NOT NULL) leaves the table as it was.
insert_fill_tbl(tbl, a, t) ==
    IF NotNullViolation(a) THEN tbl
    ELSE IF HasFill(tbl, a.fill_id)
         THEN [i \in 1..Len(tbl) |->
                 IF tbl[i].fill_id = a.fill_id
                 THEN [tbl[i] EXCEPT !.match_id = a.match_id]
                 ELSE tbl[i]]
         ELSE Append(tbl, [fill_id |-> a.fill_id, ticker |-> a.ticker, side |-> a.side,
                           price |-> a.price, count |-> a.count, fee_cost |-> a.fee_cost,
                           created_time |-> a.created_time, match_id |-> a.match_id,
                           synced_at |-> t])

\* The value insert_fill returns: True after the statement ran, False in the
\* except sqlite3.IntegrityError branch.
insert_fill_ret(tbl, a) == ~NotNullViolation(a)

\* UPDATE fills SET match_id = ? WHERE match_id IS NULL AND ticker IN (?, ?)
link_fills_to_match_tbl(tbl, match_id, ticker_a, ticker_b) ==
    [i \in 1..Len(tbl) |->
        IF tbl[i].match_id = NULL /\ tbl[i].ticker \in {ticker_a, ticker_b}
        THEN [tbl[i] EXCEPT !.match_id = match_id]
        ELSE tbl[i]]

\* ORDER BY created_time: rows of equal created_time stay in storage order.
RECURSIVE OrderByCreatedTime(_, _)
OrderByCreatedTime(rows, t) ==
    IF t > MaxTime THEN <<>>
    ELSE SelectSeq(rows, LAMBDA r : r.created_time = t) \o OrderByCreatedTime(rows, t + 1)

\* SELECT * FROM fills WHERE match_id = ? ORDER BY created_time
get_fills_for_match(tbl, match_id) ==
    OrderByCreatedTime(SelectSeq(tbl, LAMBDA r : r.match_id = match_id), 0)

\* Faulty variant of get_hedges_for_match: the WHERE clause is missing.
get_hedges_for_match_all(hs, match_id) == hs

\* SELECT * FROM hedges WHERE match_id = ? ORDER BY created_at
get_hedges_for_match(hs, match_id) == SelectSeq(hs, LAMBDA h : h.match_id = match_id)

NoMatchRow ==
    [present |-> FALSE, ticker_a |-> NULL, ticker_b |-> NULL,
     theo_a |-> None, theo_b |-> None, result_a |-> NULL]

\* INSERT INTO pnl_matches ... ON CONFLICT(id) DO UPDATE SET theo_a = COALESCE(...), ...
upsert_match_tbl(ms, match_id, ticker_a, ticker_b, theo_a, theo_b) ==
    IF ms[match_id].present
    THEN [ms EXCEPT ![match_id].theo_a = IF theo_a # None THEN theo_a ELSE @,
                    ![match_id].theo_b = IF theo_b # None THEN theo_b ELSE @]
    ELSE [ms EXCEPT ![match_id] =
            [present |-> TRUE, ticker_a |-> ticker_a, ticker_b |-> ticker_b,
             theo_a |-> theo_a, theo_b |-> theo_b, result_a |-> NULL]]

-----------------------------------------------------------------------------
(* src/pnl_db.py: calculate_match_pnl *)

\* Long A = buy YES on ticker_a OR buy NO on ticker_b (the test of the for loop).
IsLongA(f, ticker_a, ticker_b) ==
    (f.ticker = ticker_a /\ f.side = "yes") \/ (f.ticker = ticker_b /\ f.side = "no")

\* Faulty variant of PairedCost: the paired contracts are taken from the newest fills.
RECURSIVE PairedCost_lifo(_, _)
PairedCost_lifo(fs, remaining) ==
    IF fs = <<>> THEN 0
    ELSE LET last == fs[Len(fs)]
             take == Min(last.count, remaining)
         IN  take * last.price
             + (IF remaining - take = 0 THEN 0
                ELSE PairedCost_lifo(SubSeq(fs, 1, Len(fs) - 1), remaining - take))

\* The first FIFO loop: cost of the first `remaining` contracts of fs. The loop
\* breaks once remaining reaches 0.
RECURSIVE PairedCost(_, _)
PairedCost(fs, remaining) ==
    IF fs = <<>> THEN 0
    ELSE LET take == Min(Head(fs).count, remaining)
         IN  take * Head(fs).price
             + (IF remaining - take = 0 THEN 0 ELSE PairedCost(Tail(fs), remaining - take))

\* The leftover loop: cost of what is left of fs after skipping `skip` contracts.
RECURSIVE LeftoverCost(_, _)
LeftoverCost(fs, skip) ==
    IF fs = <<>> THEN 0
    ELSE IF skip >= Head(fs).count
         THEN LeftoverCost(Tail(fs), skip - Head(fs).count)
         ELSE (Head(fs).count - skip) * Head(fs).price + LeftoverCost(Tail(fs), 0)

RECURSIVE TotalCount(_)
TotalCount(fs) == IF fs = <<>> THEN 0 ELSE Head(fs).count + TotalCount(Tail(fs))

\* total_fees += f["fee_cost"] or 0
RECURSIVE TotalFees(_)
TotalFees(fs) ==
    IF fs = <<>> THEN 0
    ELSE (IF Head(fs).fee_cost = None THEN 0 ELSE Head(fs).fee_cost) + TotalFees(Tail(fs))

\* Hedge P&L in cents: amount_usd * (odds - 1) on a win, -amount_usd on a loss.
RECURSIVE HedgePnl(_)
HedgePnl(hs) ==
    IF hs = <<>> THEN 0
    ELSE (CASE Head(hs).outcome = "win"  -> Head(hs).amount_usd * (Head(hs).odds - 100)
            [] Head(hs).outcome = "loss" -> 0 - Head(hs).amount_usd * 100
            [] OTHER -> 0)
         + HedgePnl(Tail(hs))

\* The mid-price oracle get_mid_price: absent, raising, or a price per ticker.
NoOracle == [kind |-> "none", price |-> [t \in Tickers |-> 0]]
RaisingOracle == [kind |-> "raises", price |-> [t \in Tickers |-> 0]]

PnlError ==
    [error |-> TRUE, settled |-> FALSE, arb |-> 0, ev |-> 0, av |-> 0, delta |-> 0,
     hedge |-> 0, fees |-> 0, pnl |-> 0, pairs |-> 0, leftover_a |-> 0, leftover_b |-> 0]

\* `x or 50` of Python: None and 0 both give 50.
Or50(x) == IF x = None \/ x = 0 THEN 50 ELSE x

calculate_match_pnl(tbl, hs, ms, match_id, theo_a_arg, theo_b_arg, get_mid_price) ==
    LET fills == get_fills_for_match(tbl, match_id)
        hedgerows == get_hedges_for_match(hs, match_id)
        row == ms[match_id]
    IN  IF ~row.present THEN PnlError
        ELSE
        LET ticker_a == row.ticker_a
            ticker_b == row.ticker_b
            result_a == row.result_a
            theo_a == IF theo_a_arg = None THEN Or50(row.theo_a) ELSE theo_a_arg
            theo_b == IF theo_b_arg = None THEN Or50(row.theo_b) ELSE theo_b_arg
            fills_a == SelectSeq(fills, LAMBDA f : IsLongA(f, ticker_a, ticker_b))
            fills_b == SelectSeq(fills, LAMBDA f : ~IsLongA(f, ticker_a, ticker_b))
            total_fees == TotalFees(fills)
            total_a == TotalCount(fills_a)
            total_b == TotalCount(fills_b)
            pairs == Min(total_a, total_b)
            cost_a_paired == PairedCost(fills_a, pairs)
            cost_b_paired == PairedCost(fills_b, pairs)
            arb == (100 * pairs) - cost_a_paired - cost_b_paired
            leftover_a == total_a - pairs
            leftover_b == total_b - pairs
            leftover_cost_a == LeftoverCost(fills_a, pairs)
            leftover_cost_b == LeftoverCost(fills_b, pairs)
            ev == (theo_a * leftover_a - leftover_cost_a)
                  + (theo_b * leftover_b - leftover_cost_b)
            av == IF result_a # NULL
                  THEN (IF result_a = "yes"
                        THEN (100 * leftover_a - leftover_cost_a) + (0 - leftover_cost_b)
                        ELSE (0 - leftover_cost_a) + (100 * leftover_b - leftover_cost_b))
                  ELSE IF get_mid_price.kind # "none" /\ (leftover_a > 0 \/ leftover_b > 0)
                  THEN (IF get_mid_price.kind = "raises" THEN 0
                        ELSE LET mid_a == IF leftover_a > 0 THEN get_mid_price.price[ticker_a] ELSE 0
                                 mid_b == IF leftover_b > 0 THEN get_mid_price.price[ticker_b] ELSE 0
                             IN  (mid_a * leftover_a - leftover_cost_a)
                                 + (mid_b * leftover_b - leftover_cost_b))
                  ELSE 0
            hedge == HedgePnl(hedgerows)
        IN  [error |-> FALSE, settled |-> result_a # NULL, arb |-> arb, ev |-> ev, av |-> av,
             delta |-> av - ev, hedge |-> hedge, fees |-> total_fees,
             pnl |-> arb + av + hedge - total_fees,
             pairs |-> pairs, leftover_a |-> leftover_a, leftover_b |-> leftover_b]

-----------------------------------------------------------------------------
(* src/mm.py: theo derivation and the adaptive pricer *)

\* Python round() of the rational n/d to an integer. When n/d lies exactly
\* halfway, the float the code rounds is the quotient with its rounding error,
\* which may fall on either side: both neighbours are possible.
RoundSet(n, d) ==
    IF 2 * (n % d) < d THEN {n \div d}
    ELSE IF 2 * (n % d) > d THEN {n \div d + 1}
    ELSE {n \div d, n \div d + 1}

\* calculate_theo(odds_a, odds_b), odds in hundredths, theos in tenths of a
\* cent: the set of dicts {"a", "b"} the call can return. prob_a / total is
\* odds_b / (odds_a + odds_b); each theo is rounded on its own. With neither
\* odds positive total is 0 and the division raises: no dict is returned.
calculate_theo(odds_a, odds_b) ==
    IF odds_a > 0 /\ odds_b > 0
    THEN { [a |-> x, b |-> y] : x \in RoundSet(1000 * odds_b, odds_a + odds_b),
                                y \in RoundSet(1000 * odds_a, odds_a + odds_b) }
    ELSE IF odds_a > 0 THEN { [a |-> 1000, b |-> 0] }
    ELSE IF odds_b > 0 THEN { [a |-> 0, b |-> 1000] }
    ELSE {}

\* int() of a float given in tenths: truncation toward zero.
IntOfTenths(x) == IF x >= 0 THEN x \div 10 ELSE 0 - ((0 - x) \div 10)

\* Pairs (theo, edge_min), in tenths, among the values the specifications draw,
\* whose double difference theo - edge_min lies just below the integer it equals
\* in exact arithmetic: 32.3 - 0.3 is 31.999999999999996, 2.3 - 0.3 is
\* 1.9999999999999998. Edges 1.0 and 2.5 are exact in binary and have no such
\* pair; sums theo + edge_min of the drawn values are never short.
FloatShortfall == {<<23, 3>>, <<323, 3>>}

\* int(theo - edge_min) as the double arithmetic of the pricer computes it.
IntOfDifference(theo, edge_min) ==
    IF <<theo, edge_min>> \in FloatShortfall
    THEN IntOfTenths(theo - edge_min) - 1
    ELSE IntOfTenths(theo - edge_min)

\* Faulty variant of calculate_adaptive_price: at the top of the book the
\* price is always re-derived from the second level, sticky or not.
calculate_adaptive_price_unsticky(theo, best_price, second_price, edge_min, our_current, sticky_ceiling, is_retest, best_qty, our_size) ==
    LET ceiling == IntOfDifference(theo, edge_min)
        tied_at_top == best_qty > our_size
        clamp(target) == Max(1, Min(ceiling, target))
    IN  IF our_current # None /\ best_price = our_current
        THEN IF tied_at_top /\ our_current < ceiling THEN clamp(our_current + 1)
             ELSE clamp(IF second_price > 0 THEN second_price + 1 ELSE 1)
        ELSE IF best_price > ceiling THEN 0 - 1
             ELSE clamp(best_price + 1)

\* Faulty variant of calculate_adaptive_price: a tie at the top is held
\* like an untied top.
calculate_adaptive_price_notie(theo, best_price, second_price, edge_min, our_current, sticky_ceiling, is_retest, best_qty, our_size) ==
    LET ceiling == IntOfDifference(theo, edge_min)
        clamp(target) == Max(1, Min(ceiling, target))
    IN  IF our_current # None /\ best_price = our_current
        THEN IF sticky_ceiling /\ ~is_retest THEN clamp(our_current)
             ELSE clamp(IF second_price > 0 THEN second_price + 1 ELSE 1)
        ELSE IF best_price > ceiling THEN 0 - 1
             ELSE clamp(best_price + 1)

\* Faulty variant of calculate_adaptive_price: a book above the ceiling is
\* answered with the ceiling.
calculate_adaptive_price_chase(theo, best_price, second_price, edge_min, our_current, sticky_ceiling, is_retest, best_qty, our_size) ==
    LET ceiling == IntOfDifference(theo, edge_min)
        tied_at_top == best_qty > our_size
        clamp(target) == Max(1, Min(ceiling, target))
    IN  IF our_current # None /\ best_price = our_current
        THEN IF tied_at_top /\ our_current < ceiling THEN clamp(our_current + 1)
             ELSE IF sticky_ceiling /\ ~is_retest THEN clamp(our_current)
             ELSE clamp(IF second_price > 0 THEN second_price + 1 ELSE 1)
        ELSE clamp(best_price + 1)

\* calculate_adaptive_price(..., side="bid", ...): theo and edge_min in tenths,
\* prices in cents. The result is a price or -1 (back off).
calculate_adaptive_price(theo, best_price, second_price, edge_min, our_current, sticky_ceiling, is_retest, best_qty, our_size) ==
    LET ceiling == IntOfDifference(theo, edge_min)
        tied_at_top == best_qty > our_size
        clamp(target) == Max(1, Min(ceiling, target))
    IN  IF our_current # None /\ best_price = our_current
        THEN IF tied_at_top /\ our_current < ceiling THEN clamp(our_current + 1)
             ELSE IF sticky_ceiling /\ ~is_retest THEN clamp(our_current)
             ELSE clamp(IF second_price > 0 THEN second_price + 1 ELSE 1)
        ELSE IF best_price > ceiling THEN 0 - 1
             ELSE clamp(best_price + 1)

\* Outcomes of a call that raises instead of returning.
NameError == 0 - 101
TypeError == 0 - 102

\* calculate_adaptive_price(..., side="ask", ...) of mm.py. Where the best ask
\* is below the floor (and is not our own) the code reads must_quote, a name
\* the function does not bind: the call raises NameError.
calculate_adaptive_price_ask(theo, best_price, second_price, edge_min, our_current, sticky_ceiling, is_retest, best_qty, our_size) ==
    LET floor == IntOfTenths(theo + edge_min) + 1
        tied_at_top == best_qty > our_size
        clamp(target) == Max(floor, Min(99, target))
    IN  IF our_current # None /\ best_price = our_current
        THEN IF tied_at_top /\ our_current > floor THEN clamp(our_current - 1)
             ELSE IF sticky_ceiling /\ ~is_retest THEN clamp(our_current)
             ELSE clamp(IF second_price < 100 THEN second_price - 1 ELSE 99)
        ELSE IF best_price < floor THEN NameError
             ELSE clamp(best_price - 1)

\* A call of mm.py's calculate_adaptive_price as its callers write it:
\* must_quote is "absent" (dashboard.py) or passed by keyword (mm.py's own
\* update_quotes), which the signature does not accept.
mm_call(c) ==
    IF c.must_quote # "absent" THEN TypeError
    ELSE IF c.side = "bid"
    THEN calculate_adaptive_price(c.theo, c.best_price, c.second_price, c.edge_min,
             c.our_current, c.sticky_ceiling, c.is_retest, c.best_qty, c.our_size)
    ELSE calculate_adaptive_price_ask(c.theo, c.best_price, c.second_price, c.edge_min,
             c.our_current, c.sticky_ceiling, c.is_retest, c.best_qty, c.our_size)

-----------------------------------------------------------------------------
(* src/rrq_prx_mm.py: calculate_adaptive_price with the must_quote parameter *)

rrq_prx_calculate_adaptive_price_bid(theo, best_price, second_price, edge_min, our_current, sticky_ceiling, is_retest, best_qty, our_size, must_quote) ==
    LET ceiling == IntOfDifference(theo, edge_min)
        tied_at_top == best_qty > our_size
        clamp(target) == Max(1, Min(ceiling, target))
    IN  IF our_current # None /\ best_price = our_current
        THEN IF tied_at_top /\ our_current < ceiling THEN clamp(our_current + 1)
             ELSE IF sticky_ceiling /\ ~is_retest THEN clamp(our_current)
             ELSE clamp(IF second_price > 0 THEN second_price + 1 ELSE 1)
        ELSE IF best_price > ceiling
             THEN IF must_quote THEN Max(1, ceiling) ELSE 0 - 1
             ELSE clamp(best_price + 1)

rrq_prx_calculate_adaptive_price_ask(theo, best_price, second_price, edge_min, our_current, sticky_ceiling, is_retest, best_qty, our_size, must_quote) ==
    LET floor == IntOfTenths(theo + edge_min) + 1
        tied_at_top == best_qty > our_size
        clamp(target) == Max(floor, Min(99, target))
    IN  IF our_current # None /\ best_price = our_current
        THEN IF tied_at_top /\ our_current > floor THEN clamp(our_current - 1)
             ELSE IF sticky_ceiling /\ ~is_retest THEN clamp(our_current)
             ELSE clamp(IF second_price < 100 THEN second_price - 1 ELSE 99)
        ELSE IF best_price < floor
             THEN IF must_quote THEN Min(99, floor) ELSE 0 - 1
             ELSE clamp(best_price - 1)

\* A call of rrq_prx_mm.py's calculate_adaptive_price; must_quote defaults to
\* False.
rrq_prx_call(c) ==
    IF c.side = "bid"
    THEN rrq_prx_calculate_adaptive_price_bid(c.theo, c.best_price, c.second_price,
             c.edge_min, c.our_current, c.sticky_ceiling, c.is_retest, c.best_qty,
             c.our_size, c.must_quote = "True")
    ELSE rrq_prx_calculate_adaptive_price_ask(c.theo, c.best_price, c.second_price,
             c.edge_min, c.our_current, c.sticky_ceiling, c.is_retest, c.best_qty,
             c.our_size, c.must_quote = "True")

-----------------------------------------------------------------------------
(* src/mm.py: the streamed orderbook cache of KalshiWebSocket *)

BookSides == {"yes", "no"}

\* orderbooks.get(ticker, {"yes": [], "no": []})
EmptyCache == [sd \in BookSides |-> <<>>]

\* Index of the first level of book_side at that price, 0 when there is none
\* (the for loop that breaks at the first p == price).
FindLevel(book_side, price) ==
    IF \E i \in 1..Len(book_side) : book_side[i][1] = price
    THEN CHOOSE i \in 1..Len(book_side) :
            /\ book_side[i][1] = price
            /\ \A j \in 1..(i - 1) : book_side[j][1] # price
    ELSE 0

\* list.pop(i)
PopAt(s, i) == SubSeq(s, 1, i - 1) \o SubSeq(s, i + 1, Len(s))

\* Faulty variant of handle_delta_side: a level whose quantity reaches zero
\* stays in the list.
handle_delta_side_keep(book_side, price, delta) ==
    LET i == FindLevel(book_side, price)
    IN  IF i # 0 THEN [book_side EXCEPT ![i] = <<price, book_side[i][2] + delta>>]
        ELSE IF delta > 0 THEN Append(book_side, <<price, delta>>)
        ELSE book_side

\* orderbook_delta on one side's list: the level found is updated or, at a
\* quantity <= 0, popped; a level not found is appended when delta > 0.
handle_delta_side(book_side, price, delta) ==
    LET i == FindLevel(book_side, price)
    IN  IF i # 0
        THEN IF book_side[i][2] + delta <= 0
             THEN PopAt(book_side, i)
             ELSE [book_side EXCEPT ![i] = <<price, book_side[i][2] + delta>>]
        ELSE IF delta > 0 THEN Append(book_side, <<price, delta>>)
        ELSE book_side

\* sorted(levels, key=lambda x: x[0], reverse=True): stable, levels of equal
\* price keep their order.
RECURSIVE SortedByPriceDesc(_)
SortedByPriceDesc(s) ==
    IF s = <<>> THEN <<>>
    ELSE LET rest == SortedByPriceDesc(SubSeq(s, 1, Len(s) - 1))
             x == s[Len(s)]
         IN  SelectSeq(rest, LAMBDA l : l[1] >= x[1]) \o <<x>>
             \o SelectSeq(rest, LAMBDA l : l[1] < x[1])

\* _parse_book / get_book: the top of the cached book.
parse_book(cache) ==
    LET yes_bids == SortedByPriceDesc(cache["yes"])
        no_bids == SortedByPriceDesc(cache["no"])
        best_yes_bid == IF yes_bids # <<>> THEN yes_bids[1][1] ELSE 0
        best_yes_bid_qty == IF yes_bids # <<>> THEN yes_bids[1][2] ELSE 0
        second_yes_bid == IF Len(yes_bids) > 1 THEN yes_bids[2][1] ELSE 0
        best_no_bid == IF no_bids # <<>> THEN no_bids[1][1] ELSE 0
        best_no_bid_qty == IF no_bids # <<>> THEN no_bids[1][2] ELSE 0
        second_no_bid == IF Len(no_bids) > 1 THEN no_bids[2][1] ELSE 0
    IN  [best_bid |-> best_yes_bid, best_bid_qty |-> best_yes_bid_qty,
         second_bid |-> second_yes_bid,
         best_ask |-> IF best_no_bid > 0 THEN 100 - best_no_bid ELSE 100,
         second_ask |-> IF second_no_bid > 0 THEN 100 - second_no_bid ELSE 100,
         best_no_bid |-> best_no_bid, best_no_bid_qty |-> best_no_bid_qty,
         second_no_bid |-> second_no_bid]

\* Price levels of the ticker the stream model follows, per side.
BookPrices == [yes |-> {30, 31, 32}, no |-> {60, 61}]

\* The exchange's book with no contracts at any level.
EmptyBook == [sd \in BookSides |-> [p \in BookPrices[sd] |-> 0]]

NoBookMsg == [kind |-> "none", popped |-> FALSE]

NoPriceCall ==
    [called |-> FALSE, module |-> "mm", side |-> "bid", theo |-> 0, best_price |-> 0,
     second_price |-> 0, edge_min |-> 0, our_current |-> None, sticky_ceiling |-> FALSE,
     is_retest |-> FALSE, best_qty |-> 0, our_size |-> 0, must_quote |-> "absent",
     out |-> 0]

-----------------------------------------------------------------------------
(* src/dashboard.py: the match, its four order keys and update_quotes *)

REBAL_FEE_BUFFER_CENTS == 2
sticky_reset_secs == 10
overbid_cancel_delay == 10

\* Seconds between two clock values.
Elapsed(t0, t1) == (t1 - t0) * ClockStep

\* The four order keys "M1:<ticker>:<side>" of the match, in the order
\* update_quotes handles them; the model follows the first MaxLegs of them.
AllLegs == <<"a_yes", "b_yes", "a_no", "b_no">>
Legs == {AllLegs[i] : i \in 1..Min(MaxLegs, Len(AllLegs))}
LegTicker(l) == IF l \in {"a_yes", "a_no"} THEN "TA" ELSE "TB"
LegSide(l) == IF l \in {"a_yes", "b_yes"} THEN "yes" ELSE "no"
GoesLongA(l) == l \in {"a_yes", "b_no"}

NoMatch ==
    [present |-> FALSE, active |-> FALSE, odds_a |-> 0, odds_b |-> 0, theo_a |-> 0,
     theo_b |-> 0, edge |-> 0, contracts |-> 0, inventory_max |-> 0, inventory |-> 0,
     cost_long_a |-> 0, count_long_a |-> 0, cost_long_b |-> 0, count_long_b |-> 0,
     event_time |-> None]

\* Match(...) as add_match builds it: theo is what calculate_theo returned,
\* inventory what calculate_match_inventory read from the exchange.
NewMatch(odds_a, odds_b, theo, edge, contracts, inventory_max, inventory, event_time) ==
    [present |-> TRUE, active |-> FALSE, odds_a |-> odds_a, odds_b |-> odds_b,
     theo_a |-> theo.a, theo_b |-> theo.b, edge |-> edge, contracts |-> contracts,
     inventory_max |-> inventory_max, inventory |-> inventory,
     cost_long_a |-> 0, count_long_a |-> 0, cost_long_b |-> 0, count_long_b |-> 0,
     event_time |-> event_time]

NoOrder == [order_id |-> 0, price |-> 0, count |-> 0, placed_at |-> 0]
IdlePou == [pc |-> "idle", target |-> 0, count |-> 0, order_id |-> 0]
NoWaiter == [w |-> FALSE, target |-> 0, count |-> 0]

\* get_order_info: <<our price, is_retest>>.
get_order_info(ords, l, t) ==
    IF ords[l] = NoOrder THEN <<None, FALSE>>
    ELSE <<ords[l].price, Elapsed(ords[l].placed_at, t) > sticky_reset_secs>>

CeilDiv(a, b) == (a + b - 1) \div b

\* Faulty variant of Breakeven: the fee buffer is not taken off.
Breakeven_nobuffer(cost, count) ==
    IF count > 0 /\ cost > 0
    THEN 100 - CeilDiv(cost, count) - 1
    ELSE 0

\* breakeven_for_b from the long-A cost basis (and breakeven_for_a from long-B).
Breakeven(cost, count) ==
    IF count > 0 /\ cost > 0
    THEN 100 - CeilDiv(cost, count) - 1 - REBAL_FEE_BUFFER_CENTS
    ELSE 0

rebalance_ceiling_b(m) ==
    LET breakeven_for_b == Breakeven(m.cost_long_a, m.count_long_a)
    IN  IF m.inventory >= m.inventory_max /\ breakeven_for_b > 0
        THEN breakeven_for_b ELSE None

rebalance_ceiling_a(m) ==
    LET breakeven_for_a == Breakeven(m.cost_long_b, m.count_long_b)
    IN  IF m.inventory <= 0 - m.inventory_max /\ breakeven_for_a > 0
        THEN breakeven_for_a ELSE None

\* rebalance_ceiling > theo - edge as update_quotes evaluates it on doubles: a
\* difference that falls short of its integer is exceeded by that integer.
ExceedsDifference(rebal, theo, edge) ==
    IF <<theo, edge>> \in FloatShortfall
    THEN rebal * 10 >= theo - edge
    ELSE rebal * 10 > theo - edge

\* update_quotes: the target of one leg, a price, -1 (overbid) or -2
\* (overexposed). book is the side of the book the leg bids on.
LegTarget(m, ords, l, book, t) ==
    LET theo == IF GoesLongA(l) THEN m.theo_a ELSE m.theo_b
        rebal == IF GoesLongA(l) THEN rebalance_ceiling_a(m) ELSE rebalance_ceiling_b(m)
        can_quote == IF GoesLongA(l) THEN m.inventory < m.inventory_max
                                     ELSE m.inventory > 0 - m.inventory_max
        info == get_order_info(ords, l, t)
    IN  IF rebal # None /\ ExceedsDifference(rebal, theo, m.edge)
        THEN calculate_adaptive_price(rebal * 10 + m.edge, book.best, book.second, m.edge,
                                      info[1], TRUE, info[2], book.qty, m.contracts)
        ELSE IF can_quote
        THEN calculate_adaptive_price(theo, book.best, book.second, m.edge,
                                      info[1], TRUE, info[2], book.qty, m.contracts)
        ELSE 0 - 2

\* Faulty variant of PouDecide: the overbid delay is over only once more
\* than overbid_cancel_delay has elapsed.
PouDecide_late(current, since, target_price, contracts, t) ==
    IF target_price < 0
    THEN IF target_price = 0 - 1 /\ current # NoOrder /\ since = None
         THEN [act |-> "idle", since |-> t]
         ELSE IF /\ target_price = 0 - 1 /\ current # NoOrder
                 /\ Elapsed(since, t) <= overbid_cancel_delay
         THEN [act |-> "idle", since |-> since]
         ELSE IF current # NoOrder
         THEN [act |-> "cancel_backoff", since |-> since]
         ELSE [act |-> "idle", since |-> None]
    ELSE IF current # NoOrder /\ current.price = target_price /\ current.count = contracts
         THEN [act |-> "idle", since |-> None]
         ELSE IF current # NoOrder
         THEN [act |-> "cancel_replace", since |-> None]
         ELSE [act |-> "place", since |-> None]

\* place_or_update from taking the key's lock to its first gateway call:
\* what it does next and what it leaves in overbid_since[key].
PouDecide(current, since, target_price, contracts, t) ==
    IF target_price < 0
    THEN IF target_price = 0 - 1 /\ current # NoOrder /\ since = None
         THEN [act |-> "idle", since |-> t]
         ELSE IF /\ target_price = 0 - 1 /\ current # NoOrder
                 /\ Elapsed(since, t) < overbid_cancel_delay
         THEN [act |-> "idle", since |-> since]
         ELSE IF current # NoOrder
         THEN [act |-> "cancel_backoff", since |-> since]
         ELSE [act |-> "idle", since |-> None]
    ELSE IF current # NoOrder /\ current.price = target_price /\ current.count = contracts
         THEN [act |-> "idle", since |-> None]
         ELSE IF current # NoOrder
         THEN [act |-> "cancel_replace", since |-> None]
         ELSE [act |-> "place", since |-> None]

\* The lock holder place_or_update becomes after PouDecide.
PouAfter(current, since, target_price, contracts, t) ==
    LET d == PouDecide(current, since, target_price, contracts, t)
    IN  IF d.act = "idle" THEN IdlePou
        ELSE [pc |-> d.act, target |-> target_price, count |-> contracts,
              order_id |-> current.order_id]

\* The exchange without the order of that id.
Without(rs, ids) == {o \in rs : o.order_id \notin ids}

OrderIds(ords) == {ords[l].order_id : l \in {k \in Legs : ords[k] # NoOrder}}
RestingIds(rs) == {o.order_id : o \in rs}

\* The requests (place_or_update calls) of the lock specification.
Reqs == 1..MaxReqs

\* order_locks is empty, no place_or_update has been called.
NoLocks ==
    [order_locks |-> [l \in Legs |-> FALSE],    \* key in order_locks
     created |-> [l \in Legs |-> 0],            \* asyncio.Lock() calls made for the key
     locked |-> [l \in Legs |-> FALSE],         \* Lock._locked
     waiters |-> [l \in Legs |-> <<>>],         \* Lock._waiters, one future per request
     fut_done |-> {},                           \* requests whose future has its result
     pc |-> [r \in Reqs |-> "none"],            \* none, waiting, critical, done
     key |-> [r \in Reqs |-> None],
     arrived |-> [l \in Legs |-> <<>>],         \* history: requests of the key, as called
     entered |-> [l \in Legs |-> <<>>]]         \* history: as they entered `async with lock`
\* KalshiWebSocket as constructed: no connection, nothing subscribed, an
\* empty cache, listen() not started.
NoStream ==
    [ws |-> "none",                 \* self.ws: none, open, closed
     subscribed_tickers |-> {},
     orderbooks |-> {},             \* the tickers that have a book in self.orderbooks
     listen |-> "none",             \* listen(): none, iterating, sleeping, connecting, returned
     tickers |-> {},                \* the local `tickers` of reconnect()
     served |-> {},                 \* the tickers the exchange streams on the connection
     inbox |-> <<>>,                \* messages received on the connection, not yet consumed
     before |-> {}]                 \* history: subscribed_tickers when the connection closed
\* get_pnl_summary has not been called: no result list.
NoSummary == [called |-> FALSE, period |-> NULL, result |-> <<>>]

\* The stream cache is empty (no ticker subscribed) and no price was computed.
StreamIdle ==
    /\ orderbooks = EmptyCache
    /\ book_state = EmptyBook
    /\ book_msg = NoBookMsg
    /\ price_call = NoPriceCall
    /\ start_pc = "idle"
    /\ key_locks = NoLocks
    /\ ws_state = NoStream
    /\ summary_out = NoSummary

\* Nothing of the quoting core is in flight and nothing is resting.
QuotingIdle ==
    /\ orders = [l \in Legs |-> NoOrder]
    /\ overbid_since = [l \in Legs |-> None]
    /\ pou = [l \in Legs |-> IdlePou]
    /\ waiting = [l \in Legs |-> NoWaiter]
    /\ mcancel = [l \in Legs |-> 0]
    /\ resting = {}
    /\ next_order_id = 1
    /\ fill_queue = <<>>
    /\ next_trade_id = 1
    /\ shutdown_done = FALSE
    /\ phase = "running"
    /\ emergency_runs = 0
    /\ term_known = {}
    /\ attempted = {}

-----------------------------------------------------------------------------
(* The journal specification: insert_fill and link_fills_to_match as called  *)
(* by on_fill, add_match and the backfill script.                            *)

\* ticker_a, ticker_b of each match (add_match's MatchConfig).
MatchTickers(m) == IF m = "M1" THEN <<"TA", "TB">> ELSE <<"TB", "TC">>

FillIds == 1..MaxFillIds

\* The stored row r holds exactly the values the call passes.
SameFill(r, a) ==
    /\ r.ticker = a.ticker /\ r.side = a.side /\ r.price = a.price /\ r.count = a.count
    /\ r.fee_cost = a.fee_cost /\ r.created_time = a.created_time /\ r.match_id = a.match_id

\* Arguments the callers of insert_fill pass at clock t: on_fill passes the
\* match it found, the backfill script its own match id, the default is None.
JournalFillArgs(t) ==
    [fill_id : FillIds, ticker : {"TA"}, side : {"yes"}, price : {40, None},
     count : {1}, fee_cost : {1}, created_time : {t}, match_id : MatchIds \cup {NULL}]

NoInsert == [called |-> FALSE, existed |-> FALSE, inserted |-> FALSE, repeated |-> FALSE,
             ret |-> FALSE]
NoPnl == [called |-> FALSE, match_id |-> NULL, theo_a |-> None, theo_b |-> None,
          get_mid_price |-> NoOracle, out |-> PnlError]

JournalInit ==
    /\ now = 0
    /\ fills_tbl = <<>>
    /\ pnl_matches = [m \in MatchIds |-> NoMatchRow]
    /\ hedges = <<>>
    /\ last_insert = NoInsert
    /\ pnl_out = NoPnl
    /\ match = NoMatch
    /\ QuotingIdle
    /\ StreamIdle

Tick ==
    /\ now < MaxTime
    /\ now' = now + 1
    /\ UNCHANGED <<jvars, qvars, bvars, price_call, start_pc, lvars>>

InsertFill ==
    \E a \in JournalFillArgs(now) :
        /\ fills_tbl' = insert_fill_tbl(fills_tbl, a, now)
        /\ last_insert' = [called |-> TRUE,
                           existed |-> HasFill(fills_tbl, a.fill_id),
                           inserted |-> Len(fills_tbl') > Len(fills_tbl),
                           repeated |-> /\ HasFill(fills_tbl, a.fill_id)
                                        /\ SameFill(FillRow(fills_tbl, a.fill_id), a),
                           ret |-> insert_fill_ret(fills_tbl, a)]
        /\ UNCHANGED <<now, pnl_matches, hedges, pnl_out, qvars, bvars, price_call, start_pc, lvars>>

\* add_match: upsert_match, then link_fills_to_match with the match's tickers.
UpsertAndLink ==
    \E m \in MatchIds :
        /\ pnl_matches' = upsert_match_tbl(pnl_matches, m, MatchTickers(m)[1],
                                           MatchTickers(m)[2], 60, 40)
        /\ fills_tbl' = link_fills_to_match_tbl(fills_tbl, m, MatchTickers(m)[1],
                                                MatchTickers(m)[2])
        /\ UNCHANGED <<now, hedges, last_insert, pnl_out, qvars, bvars, price_call, start_pc, lvars>>

JournalNext == Tick \/ InsertFill \/ UpsertAndLink

SpecJournal == JournalInit /\ [][JournalNext]_vars

-----------------------------------------------------------------------------
(* The P&L specification: calculate_match_pnl applied to bounded journals.  *)

\* Purchases of match M1 (tickers TA, TB) on its four legs.
PnlFillKinds ==
    [ticker : {"TA", "TB"}, side : Sides, lot : {<<40, 1, 0>>, <<60, 2, 0>>, <<60, 2, 1>>},
     match_id : {"M1"}]

\* Rows that are not M1's: a fill of match M2 and an unlinked fill.
ForeignFillKinds ==
    { [ticker |-> "TB", side |-> "yes", lot |-> <<60, 1, 0>>, match_id |-> "M2"],
      [ticker |-> "TA", side |-> "no", lot |-> <<40, 2, 1>>, match_id |-> NULL] }

PnlRow(i, k) ==
    [fill_id |-> i, ticker |-> k.ticker, side |-> k.side, price |-> k.lot[1],
     count |-> k.lot[2], fee_cost |-> IF k.side = "yes" THEN 1 ELSE None,
     created_time |-> k.lot[3], match_id |-> k.match_id, synced_at |-> 0]

Hedge(m, outcome) == [match_id |-> m, amount_usd |-> 10, odds |-> 250, outcome |-> outcome]

HedgeTables ==
    { <<>>, <<Hedge("M1", "win"), Hedge("M2", "loss")>>, <<Hedge("M1", "loss")>> }

PriceOracle == [kind |-> "prices", price |-> [t \in Tickers |-> IF t = "TA" THEN 45 ELSE 52]]

\* The theo and oracle arguments a caller passes.
PnlCallArgs ==
    { <<None, None, NoOracle>>, <<None, None, PriceOracle>>,
      <<None, None, RaisingOracle>>, <<55, 45, PriceOracle>> }

PnlInit ==
    /\ now = 0
    /\ \E n \in 0..MaxPnlFills :
         \E k \in [1..n -> PnlFillKinds \cup ForeignFillKinds] :
            fills_tbl = [i \in 1..n |-> PnlRow(i, k[i])]
    /\ \E r \in {NULL, "yes", "no"} :
         pnl_matches =
            [m \in MatchIds |->
                [present |-> TRUE, ticker_a |-> MatchTickers(m)[1],
                 ticker_b |-> MatchTickers(m)[2],
                 theo_a |-> IF m = "M1" THEN 60 ELSE 0,
                 theo_b |-> IF m = "M1" THEN 40 ELSE None,
                 result_a |-> IF m = "M1" THEN r ELSE NULL]]
    /\ hedges \in HedgeTables
    /\ last_insert = NoInsert
    /\ pnl_out = NoPnl
    /\ match = NoMatch
    /\ QuotingIdle
    /\ StreamIdle

\* api_get_match_pnl / get_state / get_total_pnl calling calculate_match_pnl.
CalculateMatchPnl ==
    \E m \in MatchIds, c \in PnlCallArgs :
        /\ pnl_out' = [called |-> TRUE, match_id |-> m, theo_a |-> c[1], theo_b |-> c[2],
                       get_mid_price |-> c[3],
                       out |-> calculate_match_pnl(fills_tbl, hedges, pnl_matches, m,
                                                   c[1], c[2], c[3])]
        /\ UNCHANGED <<now, fills_tbl, pnl_matches, hedges, last_insert, qvars, bvars, price_call, start_pc, lvars>>

PnlNext == CalculateMatchPnl

SpecPnl == PnlInit /\ [][PnlNext]_vars

-----------------------------------------------------------------------------
(* src/pnl_db.py: get_pnl_summary. Amounts are kept in cents: the USD value *)
(* of the result list is the amount over 100.                               *)

\* The calendar date of a created_time of the journal: Monday 2024-12-23,
\* Monday 2024-12-30 (ISO week 1 of ISO year 2025), Monday 2025-01-06.
Calendar(t) ==
    CASE t = 0 -> [year |-> 2024, month |-> 12, day |-> 23, isoweek |-> 52]
      [] t = 1 -> [year |-> 2024, month |-> 12, day |-> 30, isoweek |-> 1]
      [] OTHER -> [year |-> 2025, month |-> 1, day |-> 6, isoweek |-> 2]

SummaryPeriods == {"daily", "weekly", "monthly"}

\* get_period_key: the key string as the tuple of its zero-padded numbers,
\* "%Y-%m-%d", f"{dt.year}-W{dt.isocalendar()[1]:02d}" or "%Y-%m".
get_period_key(period, created_time) ==
    LET dt == Calendar(created_time)
    IN  IF period = "daily" THEN <<dt.year, dt.month, dt.day>>
        ELSE IF period = "weekly" THEN <<dt.year, dt.isoweek>>
        ELSE <<dt.year, dt.month>>

\* String order of two keys of one format: by the first number that differs.
RECURSIVE KeyLess(_, _)
KeyLess(a, b) ==
    IF a = <<>> \/ b = <<>> THEN FALSE
    ELSE IF Head(a) # Head(b) THEN Head(a) < Head(b)
    ELSE KeyLess(Tail(a), Tail(b))

\* max(key_a, key_b) of two strings.
KeyMax(a, b) == IF KeyLess(a, b) THEN b ELSE a

\* entry = (key, f["price"], f["count"], fee)
SummaryEntry(period, f) ==
    [key |-> get_period_key(period, f.created_time), price |-> f.price, count |-> f.count,
     fee |-> IF f.fee_cost = None THEN 0 ELSE f.fee_cost]

\* One `periods[key][field] += amount`.
Posting(key, field, amount) == [key |-> key, field |-> field, amount |-> amount]

\* The while loop that pairs fills_a and fills_b FIFO: the postings of arb it
\* makes and the indices and remaining counts it ends with.
RECURSIVE PairLoop(_, _, _, _, _, _)
PairLoop(fills_a, fills_b, idx_a, idx_b, remaining_a, remaining_b) ==
    IF ~(idx_a <= Len(fills_a) /\ idx_b <= Len(fills_b))
    THEN [postings |-> <<>>, idx_a |-> idx_a, idx_b |-> idx_b,
          remaining_a |-> remaining_a, remaining_b |-> remaining_b]
    ELSE LET pair_count == Min(remaining_a, remaining_b)
             arb_profit == (100 - fills_a[idx_a].price - fills_b[idx_b].price) * pair_count
             arb_key == KeyMax(fills_a[idx_a].key, fills_b[idx_b].key)
             ra == remaining_a - pair_count
             rb == remaining_b - pair_count
             ia == IF ra = 0 THEN idx_a + 1 ELSE idx_a
             ib == IF rb = 0 THEN idx_b + 1 ELSE idx_b
             rest == PairLoop(fills_a, fills_b, ia, ib,
                              IF ra = 0 /\ ia <= Len(fills_a) THEN fills_a[ia].count ELSE ra,
                              IF rb = 0 /\ ib <= Len(fills_b) THEN fills_b[ib].count ELSE rb)
         IN  [rest EXCEPT !.postings = <<Posting(arb_key, "arb", arb_profit)>> \o @]

\* sum(f[2] for f in fills) - remaining - sum(fills[i][2] for i in range(idx + 1, len(fills)))
\* with the 0-based idx of the loop at position idx of the 1-based sequence.
PairedOf(fills, idx, remaining) ==
    IF fills = <<>> THEN 0
    ELSE TotalCount(fills) - remaining - TotalCount(SubSeq(fills, idx + 1, Len(fills)))

\* process_leftover: fees of every fill, ev and av of its unpaired part.
RECURSIVE process_leftover(_, _, _, _, _, _)
process_leftover(fills_list, theo, mid_price, is_a_side, skip, result_a) ==
    IF fills_list = <<>> THEN <<>>
    ELSE LET e == Head(fills_list)
             leftover_count == e.count - skip
             won == IF is_a_side THEN result_a = "yes" ELSE result_a = "no"
             av == IF result_a # NULL
                   THEN (IF won THEN 100 * leftover_count ELSE 0) - e.price * leftover_count
                   ELSE IF mid_price # None /\ mid_price # 0
                   THEN mid_price * leftover_count - e.price * leftover_count
                   ELSE 0
         IN  <<Posting(e.key, "fees", e.fee)>>
             \o (IF skip >= e.count
                 THEN process_leftover(Tail(fills_list), theo, mid_price, is_a_side,
                                       skip - e.count, result_a)
                 ELSE <<Posting(e.key, "ev", (theo - e.price) * leftover_count),
                        Posting(e.key, "av", av)>>
                      \o process_leftover(Tail(fills_list), theo, mid_price, is_a_side,
                                          0, result_a))

\* The body of `for m in matches` for one match: the postings it makes.
MatchPostings(tbl, hs, ms, match_id, period, get_mid_price) ==
    LET row == ms[match_id]
        fills == get_fills_for_match(tbl, match_id)
    IN  IF ~row.present \/ fills = <<>> THEN <<>>
        ELSE
        LET ticker_a == row.ticker_a
            ticker_b == row.ticker_b
            theo_a == Or50(row.theo_a)
            theo_b == Or50(row.theo_b)
            result_a == row.result_a
            priced == result_a = NULL /\ get_mid_price.kind = "prices"
            mid_a == IF priced THEN get_mid_price.price[ticker_a] ELSE None
            mid_b == IF priced THEN get_mid_price.price[ticker_b] ELSE None
            entries == [i \in 1..Len(fills) |-> SummaryEntry(period, fills[i])]
            isA == [i \in 1..Len(fills) |-> IsLongA(fills[i], ticker_a, ticker_b)]
            idxs_a == SelectSeq([i \in 1..Len(fills) |-> i], LAMBDA i : isA[i])
            idxs_b == SelectSeq([i \in 1..Len(fills) |-> i], LAMBDA i : ~isA[i])
            fills_a == [j \in 1..Len(idxs_a) |-> entries[idxs_a[j]]]
            fills_b == [j \in 1..Len(idxs_b) |-> entries[idxs_b[j]]]
            loop == PairLoop(fills_a, fills_b, 1, 1,
                             IF fills_a # <<>> THEN fills_a[1].count ELSE 0,
                             IF fills_b # <<>> THEN fills_b[1].count ELSE 0)
            paired_a == PairedOf(fills_a, loop.idx_a, loop.remaining_a)
            paired_b == PairedOf(fills_b, loop.idx_b, loop.remaining_b)
            hedgerows == get_hedges_for_match(hs, match_id)
        IN  loop.postings
            \o process_leftover(fills_a, theo_a, mid_a, TRUE, paired_a, result_a)
            \o process_leftover(fills_b, theo_b, mid_b, FALSE, paired_b, result_a)
            \o (IF hedgerows # <<>>
                THEN <<Posting(entries[1].key, "hedge", HedgePnl(hedgerows))>>
                ELSE <<>>)

\* periods[key][field] after all the postings.
RECURSIVE PeriodField(_, _, _)
PeriodField(postings, key, field) ==
    IF postings = <<>> THEN 0
    ELSE (IF Head(postings).key = key /\ Head(postings).field = field
          THEN Head(postings).amount ELSE 0)
         + PeriodField(Tail(postings), key, field)

\* sorted(periods.keys(), reverse=True)
RECURSIVE SortedReverse(_)
SortedReverse(keys) ==
    IF keys = {} THEN <<>>
    ELSE LET top == CHOOSE k \in keys : \A j \in keys : ~KeyLess(k, j)
         IN  <<top>> \o SortedReverse(keys \ {top})

get_pnl_summary(tbl, hs, ms, period, get_mid_price) ==
    LET postings == MatchPostings(tbl, hs, ms, "M1", period, get_mid_price)
                    \o MatchPostings(tbl, hs, ms, "M2", period, get_mid_price)
        keys == SortedReverse({postings[i].key : i \in 1..Len(postings)})
        line(key) ==
            LET arb == PeriodField(postings, key, "arb")
                ev == PeriodField(postings, key, "ev")
                av == PeriodField(postings, key, "av")
                hedge == PeriodField(postings, key, "hedge")
                fees == PeriodField(postings, key, "fees")
            IN  [period |-> key, arb |-> arb, ev |-> ev, av |-> av, delta |-> av - ev,
                 hedge |-> hedge, fees |-> fees, pnl |-> arb + av + hedge - fees]
    IN  [i \in 1..Len(keys) |-> line(keys[i])]

\* api_get_pnl_summary: get_pnl_summary(period), without a mid-price oracle.
ApiGetPnlSummary ==
    \E period \in SummaryPeriods :
        /\ summary_out' = [called |-> TRUE, period |-> period,
                           result |-> get_pnl_summary(fills_tbl, hedges, pnl_matches,
                                                      period, NoOracle)]
        /\ UNCHANGED <<now, jvars, qvars, bvars, price_call, start_pc, key_locks, ws_state>>

SummaryNext == ApiGetPnlSummary

SpecSummary == PnlInit /\ [][SummaryNext]_vars

-----------------------------------------------------------------------------
(* src/dashboard.py: handlers of the quoting core. A handler that awaits a  *)
(* gateway call is cut at the await: the part up to the call is one action, *)
(* the call's return another.                                               *)

Running == phase = "running"

\* No place_or_update and no cancel_match_orders coroutine is in flight.
Quiet ==
    /\ \A l \in Legs : pou[l] = IdlePou /\ ~waiting[l].w /\ mcancel[l] = 0

\* Quiet, and every streamed fill has been handled.
Settled == Quiet /\ fill_queue = <<>>

\* At most one coroutine waits behind each key's lock, one cancel_match_orders
\* runs at a time.
CanEvaluate == \A l \in Legs : ~waiting[l].w /\ mcancel[l] = 0

InsertCall(tbl, a) ==
    [called |-> TRUE,
     existed |-> HasFill(tbl, a.fill_id),
     inserted |-> ~NotNullViolation(a) /\ ~HasFill(tbl, a.fill_id),
     repeated |-> HasFill(tbl, a.fill_id) /\ SameFill(FillRow(tbl, a.fill_id), a),
     ret |-> insert_fill_ret(tbl, a)]

\* add_match: builds the Match, stores it under its id, upserts the journal's
\* match row with int(theo) and links the orphan fills of its tickers.
AddMatch(odds, edges, sizes, inventories, event_times) ==
    /\ Running
    /\ \E o \in odds, e \in edges, c \in sizes, i \in inventories, et \in event_times :
         \E theo \in calculate_theo(o[1], o[2]) :
            /\ match' = NewMatch(o[1], o[2], theo, e, c, c, i, et)
            /\ pnl_matches' = upsert_match_tbl(pnl_matches, "M1", "TA", "TB",
                                               IntOfTenths(theo.a), IntOfTenths(theo.b))
    /\ fills_tbl' = link_fills_to_match_tbl(fills_tbl, "M1", "TA", "TB")
    /\ UNCHANGED <<now, hedges, last_insert, pnl_out, ovars, fvars, tvars, bvars, price_call, start_pc, lvars>>

\* update_match_odds on match m: the matches it can leave.
update_match_odds(m, odds_a, odds_b) ==
    { [m EXCEPT !.odds_a = odds_a, !.odds_b = odds_b, !.theo_a = theo.a, !.theo_b = theo.b] :
        theo \in calculate_theo(odds_a, odds_b) }

\* api_update_odds.
ApiUpdateOdds(odds) ==
    /\ Running
    /\ match.present
    /\ \E o \in odds : match' \in update_match_odds(match, o[1], o[2])
    /\ UNCHANGED <<now, jvars, ovars, fvars, tvars, bvars, price_call, start_pc, lvars>>

\* refresh_match_odds, two-way branch: fair odds total / imp from the feed's
\* best odds, rounded to hundredths, handed to update_match_odds.
ApiRefreshOdds(feed) ==
    /\ Running
    /\ match.present
    /\ \E best \in feed :
         \E fair_a \in RoundSet(100 * (best[1] + best[2]), best[2]),
            fair_b \in RoundSet(100 * (best[1] + best[2]), best[1]) :
            match' \in update_match_odds(match, fair_a, fair_b)
    /\ UNCHANGED <<now, jvars, ovars, fvars, tvars, bvars, price_call, start_pc, lvars>>

\* cancel_match_orders up to its gateway calls: one cancel_one per key in the
\* local map, each holding the order id it read.
CancelMatchOrders ==
    /\ mcancel' = [l \in Legs |-> orders[l].order_id]
    /\ UNCHANGED <<orders, overbid_since, pou, waiting, resting, next_order_id>>

\* update_quotes for match m with the books read: four targets, then the four
\* place_or_update coroutines, each run up to its first gateway call or
\* parked behind its key's lock.
UpdateQuotes(m, books) ==
    LET target == [l \in Legs |-> LegTarget(m, orders, l, books[l], now)]
        free(l) == pou[l] = IdlePou
    IN  /\ pou' = [l \in Legs |->
                     IF free(l)
                     THEN PouAfter(orders[l], overbid_since[l], target[l], m.contracts, now)
                     ELSE pou[l]]
        /\ waiting' = [l \in Legs |->
                         IF free(l) THEN waiting[l]
                         ELSE [w |-> TRUE, target |-> target[l], count |-> m.contracts]]
        /\ overbid_since' = [l \in Legs |->
                         IF free(l)
                         THEN PouDecide(orders[l], overbid_since[l], target[l],
                                        m.contracts, now).since
                         ELSE overbid_since[l]]
        /\ UNCHANGED <<orders, mcancel, resting, next_order_id>>

\* handle_match_update for match m as its caller left it.
HandleMatchUpdate(m, books) ==
    IF m.event_time # None /\ now >= m.event_time
    THEN /\ match' = [m EXCEPT !.active = FALSE]
         /\ CancelMatchOrders
    ELSE /\ match' = m
         /\ UpdateQuotes(m, books)

\* api_start_match with a subscribe that returns before any other coroutine
\* runs (StartMatchBegin and StartResume in one step).
ApiStartMatch(scenarios) ==
    /\ Running
    /\ match.present
    /\ CanEvaluate
    /\ \E books \in scenarios : HandleMatchUpdate([match EXCEPT !.active = TRUE], books)
    /\ UNCHANGED <<now, jvars, fvars, tvars, bvars, price_call, start_pc, lvars>>

\* api_start_match up to its await of ws_client.subscribe: the match is
\* marked active before anything else.
StartMatchBegin ==
    /\ Running
    /\ match.present
    /\ start_pc = "idle"
    /\ match' = [match EXCEPT !.active = TRUE]
    /\ start_pc' = "start"
    /\ UNCHANGED <<now, jvars, ovars, fvars, tvars, bvars, price_call, lvars>>

\* api_start_all_matches up to its await of ws_client.subscribe: every
\* inactive match is marked active.
StartAllBegin ==
    /\ Running
    /\ match.present /\ ~match.active
    /\ start_pc = "idle"
    /\ match' = [match EXCEPT !.active = TRUE]
    /\ start_pc' = "start_all"
    /\ UNCHANGED <<now, jvars, ovars, fvars, tvars, bvars, price_call, lvars>>

\* subscribe returned: api_start_match / api_start_all_matches go on to
\* handle_match_update.
StartResume(scenarios) ==
    /\ Running
    /\ start_pc # "idle"
    /\ match.present
    /\ CanEvaluate
    /\ \E books \in scenarios : HandleMatchUpdate(match, books)
    /\ start_pc' = "idle"
    /\ UNCHANGED <<now, jvars, fvars, tvars, bvars, price_call, lvars>>

\* subscribe raised (connect or send failed): the request ends there.
StartSubscribeRaises ==
    /\ Running
    /\ start_pc # "idle"
    /\ start_pc' = "idle"
    /\ UNCHANGED <<now, jvars, qvars, bvars, price_call, lvars>>

\* on_orderbook_change for a ticker of the match.
OnOrderbookChange(scenarios) ==
    /\ Running
    /\ match.present /\ match.active
    /\ CanEvaluate
    /\ \E books \in scenarios : HandleMatchUpdate(match, books)
    /\ UNCHANGED <<now, jvars, fvars, tvars, bvars, price_call, start_pc, lvars>>

NoUpdate == [odds |-> <<None, None>>, edge |-> None, inventory |-> None]

\* api_update_settings with body u (absent fields None).
ApiUpdateSettings(updates, scenarios) ==
    /\ Running
    /\ match.present
    /\ CanEvaluate
    /\ \E u \in updates :
         \E m1 \in IF u.odds[1] # None /\ u.odds[2] # None
                   THEN update_match_odds(match, u.odds[1], u.odds[2])
                   ELSE {match} :
            LET m2 == IF u.edge # None THEN [m1 EXCEPT !.edge = u.edge] ELSE m1
                m3 == IF u.inventory # None THEN [m2 EXCEPT !.inventory = u.inventory]
                                            ELSE m2
            IN  IF u # NoUpdate /\ m3.active
                THEN \E books \in scenarios : HandleMatchUpdate(m3, books)
                ELSE match' = m3 /\ UNCHANGED ovars
    /\ UNCHANGED <<now, jvars, fvars, tvars, bvars, price_call, start_pc, lvars>>

\* api_stop_match.
ApiStopMatch ==
    /\ Running
    /\ match.present
    /\ \A l \in Legs : mcancel[l] = 0
    /\ match' = [match EXCEPT !.active = FALSE]
    /\ CancelMatchOrders
    /\ UNCHANGED <<now, jvars, fvars, tvars, bvars, price_call, start_pc, lvars>>

\* cancel_one of cancel_match_orders after its cancel_order call returned:
\* the map entry of the key is deleted unless the call raised.
McancelReturn(outcomes) ==
    /\ Running
    /\ \E l \in Legs, outcome \in outcomes :
        /\ mcancel[l] # 0
        /\ mcancel' = [mcancel EXCEPT ![l] = 0]
        /\ resting' = IF outcome = "ok" THEN Without(resting, {mcancel[l]}) ELSE resting
        /\ orders' = IF outcome = "raises" THEN orders ELSE [orders EXCEPT ![l] = NoOrder]
    /\ UNCHANGED <<now, jvars, match, overbid_since, pou, waiting, next_order_id, fvars, tvars, bvars, price_call, start_pc, lvars>>

\* place_or_update after its cancel_order call returned. Backing off: the
\* entry is deleted unless the call raised, overbid tracking is cleared, the
\* lock released. Replacing: whatever the call did, place_order is called next.
CancelReturn(outcomes) ==
    /\ Running
    /\ \E l \in Legs, outcome \in outcomes :
        /\ pou[l].pc \in {"cancel_backoff", "cancel_replace"}
        /\ resting' = IF outcome = "ok" THEN Without(resting, {pou[l].order_id}) ELSE resting
        /\ IF pou[l].pc = "cancel_backoff"
           THEN /\ orders' = IF outcome = "raises" THEN orders
                             ELSE [orders EXCEPT ![l] = NoOrder]
                /\ overbid_since' = [overbid_since EXCEPT ![l] = None]
                /\ pou' = [pou EXCEPT ![l] = IdlePou]
           ELSE /\ pou' = [pou EXCEPT ![l].pc = "place"]
                /\ UNCHANGED <<orders, overbid_since>>
    /\ UNCHANGED <<now, jvars, match, waiting, mcancel, next_order_id, fvars, tvars, bvars, price_call, start_pc, lvars>>

\* Faulty variant of exp_ts: the order is placed without an expiration.
exp_ts_absent(m) == None

\* place_or_update's exp_ts as place_order puts it on the order: the match's
\* event_time, or no expiration_ts field (None) for a match without one.
exp_ts(m) == IF m.event_time # None THEN m.event_time ELSE None

\* place_or_update after its place_order call returned: the order is stored
\* under the key when the response carries an order id ("accepted"); the
\* exchange may have taken the order and the response been lost ("lost"), or
\* the response carries no order ("rejected"). The lock is released.
PlaceReturn(outcomes) ==
    /\ Running
    /\ \E l \in Legs, outcome \in outcomes :
        /\ pou[l].pc = "place"
        /\ outcome # "rejected" => next_order_id <= MaxOrders
        /\ resting' = IF outcome = "rejected" THEN resting
                      ELSE resting \cup {[order_id |-> next_order_id, leg |-> l,
                                          price |-> pou[l].target, count |-> pou[l].count,
                                          expiration_ts |-> exp_ts(match)]}
        /\ next_order_id' = IF outcome = "rejected" THEN next_order_id ELSE next_order_id + 1
        /\ orders' = IF outcome = "accepted"
                     THEN [orders EXCEPT ![l] = [order_id |-> next_order_id,
                                                 price |-> pou[l].target,
                                                 count |-> pou[l].count, placed_at |-> now]]
                     ELSE orders
        /\ pou' = [pou EXCEPT ![l] = IdlePou]
    /\ UNCHANGED <<now, jvars, match, overbid_since, waiting, mcancel, fvars, tvars, bvars, price_call, start_pc, lvars>>

\* The place_or_update that waited behind a key's lock takes it, with the
\* target its update_quotes computed.
WaiterStart ==
    /\ Running
    /\ \E l \in Legs :
        /\ waiting[l].w /\ pou[l] = IdlePou
        /\ pou' = [pou EXCEPT ![l] = PouAfter(orders[l], overbid_since[l],
                                               waiting[l].target, waiting[l].count, now)]
        /\ overbid_since' = [overbid_since EXCEPT ![l] =
                                PouDecide(orders[l], overbid_since[l], waiting[l].target,
                                          waiting[l].count, now).since]
        /\ waiting' = [waiting EXCEPT ![l] = NoWaiter]
    /\ UNCHANGED <<now, jvars, match, orders, mcancel, resting, next_order_id, fvars, tvars, bvars, price_call, start_pc, lvars>>

\* The exchange executes n contracts of a resting order and streams the fill.
ExchangeFill ==
    /\ Running
    /\ next_trade_id <= MaxTrades
    /\ \E o \in resting : \E n \in 1..o.count :
        /\ resting' = IF n = o.count THEN resting \ {o}
                      ELSE (resting \ {o}) \cup {[o EXCEPT !.count = o.count - n]}
        /\ fill_queue' = Append(fill_queue, [trade_id |-> next_trade_id, leg |-> o.leg,
                                             price |-> o.price, count |-> n])
    /\ next_trade_id' = next_trade_id + 1
    /\ UNCHANGED <<now, jvars, match, orders, overbid_since, pou, waiting, mcancel,
                   next_order_id, tvars, bvars, price_call, start_pc, lvars>>

\* Faulty variant of track_cost_basis: a long-B fill is booked on the long-A
\* side as well.
track_cost_basis_one_side(m, leg, price, count) ==
    [m EXCEPT !.cost_long_a = @ + count * price, !.count_long_a = @ + count]

\* on_fill: the cost basis of the side the fill goes long.
track_cost_basis(m, leg, price, count) ==
    IF GoesLongA(leg)
    THEN [m EXCEPT !.cost_long_a = @ + count * price, !.count_long_a = @ + count]
    ELSE [m EXCEPT !.cost_long_b = @ + count * price, !.count_long_b = @ + count]

\* on_fill for the next fill message.
OnFill ==
    /\ Running
    /\ fill_queue # <<>>
    /\ fill_queue' = Tail(fill_queue)
    /\ LET f == Head(fill_queue)
           a == [fill_id |-> f.trade_id, ticker |-> LegTicker(f.leg), side |-> LegSide(f.leg),
                 price |-> f.price, count |-> f.count, fee_cost |-> 0,
                 created_time |-> now, match_id |-> "M1"]
       IN  IF match.present
           THEN /\ match' = track_cost_basis(match, f.leg, f.price, f.count)
                /\ fills_tbl' = insert_fill_tbl(fills_tbl, a, now)
                /\ last_insert' = InsertCall(fills_tbl, a)
                /\ orders' = [orders EXCEPT ![f.leg] = NoOrder]
           ELSE UNCHANGED <<match, fills_tbl, last_insert, orders>>
    /\ UNCHANGED <<now, pnl_matches, hedges, pnl_out, overbid_since, pou, waiting, mcancel,
                   resting, next_order_id, next_trade_id, tvars, bvars, price_call, start_pc, lvars>>

\* on_position_change: inventory becomes what calculate_match_inventory reads.
OnPositionChange(inventories) ==
    /\ Running
    /\ match.present
    /\ \E i \in inventories : match' = [match EXCEPT !.inventory = i]
    /\ UNCHANGED <<now, jvars, ovars, fvars, tvars, bvars, price_call, start_pc, lvars>>

\* api_kill_all: every match stopped, the map cleared, cancel_order called on
\* every id of the map and, if the listing call succeeds, every listed resting
\* order; the calls on the ids in done take effect, failures are swallowed.
ApiKillAll ==
    /\ Running
    /\ match' = [match EXCEPT !.active = FALSE]
    /\ orders' = [l \in Legs |-> NoOrder]
    /\ \E listed \in BOOLEAN :
         LET order_ids == OrderIds(orders) \cup (IF listed THEN RestingIds(resting) ELSE {})
         IN  \E done \in SUBSET order_ids : resting' = Without(resting, done)
    /\ UNCHANGED <<now, jvars, overbid_since, pou, waiting, mcancel, next_order_id, fvars,
                   shutdown_done, phase, emergency_runs, term_known, attempted, bvars, price_call, start_pc, lvars>>

\* emergency_cancel_all_orders: returns at once when the flag is set; else
\* sets it, lists the resting orders and calls cancel_order on each. The whole
\* body is inside one try: a listing that fails cancels nothing.
emergency_cancel_all_orders ==
    IF shutdown_done
    THEN UNCHANGED <<shutdown_done, resting, emergency_runs, term_known, attempted>>
    ELSE /\ shutdown_done' = TRUE
         /\ emergency_runs' = emergency_runs + 1
         /\ \E listed \in BOOLEAN :
              IF listed
              THEN /\ \E done \in SUBSET RestingIds(resting) :
                        resting' = Without(resting, done)
                   /\ term_known' = OrderIds(orders) \cup RestingIds(resting)
                   /\ attempted' = attempted \cup RestingIds(resting)
              ELSE /\ term_known' = OrderIds(orders)
                   /\ UNCHANGED <<resting, attempted>>

\* signal_handler: emergency_cancel_all_orders(), then sys.exit(0).
SignalHandler ==
    /\ Running
    /\ emergency_cancel_all_orders
    /\ phase' = "signalled"
    /\ UNCHANGED <<now, jvars, match, orders, overbid_since, pou, waiting, mcancel,
                   next_order_id, fvars, bvars, price_call, start_pc, lvars>>

\* lifespan after the yield: skipped when the flag is set; else the flag is
\* set, the map's ids are collected and the map cleared, the listed resting
\* orders are added if the listing succeeds, and each id is cancelled.
LifespanShutdown ==
    /\ phase \in {"running", "signalled"}
    /\ phase' = "down"
    /\ IF shutdown_done
       THEN UNCHANGED <<shutdown_done, orders, resting, emergency_runs, term_known,
                        attempted>>
       ELSE /\ shutdown_done' = TRUE
            /\ emergency_runs' = emergency_runs + 1
            /\ orders' = [l \in Legs |-> NoOrder]
            /\ \E listed \in BOOLEAN :
                 LET order_ids == OrderIds(orders)
                                    \cup (IF listed THEN RestingIds(resting) ELSE {})
                 IN  /\ \E done \in SUBSET order_ids : resting' = Without(resting, done)
                     /\ term_known' = order_ids
                     /\ attempted' = attempted \cup order_ids
    /\ UNCHANGED <<now, jvars, match, overbid_since, pou, waiting, mcancel, next_order_id,
                   fvars, bvars, price_call, start_pc, lvars>>

\* The atexit hook: emergency_cancel_all_orders() as the interpreter exits.
AtExit ==
    /\ phase \in {"signalled", "down"}
    /\ emergency_cancel_all_orders
    /\ phase' = "exited"
    /\ UNCHANGED <<now, jvars, match, orders, overbid_since, pou, waiting, mcancel,
                   next_order_id, fvars, bvars, price_call, start_pc, lvars>>

\* One round of trading_loop's periodic check: an active match whose
\* event_time has come is stopped and its orders cancelled. (The loop is
\* entered once the stream callbacks are registered.)
TradingLoopCheck ==
    /\ Running
    /\ match.present /\ match.active
    /\ match.event_time # None /\ now >= match.event_time
    /\ \A l \in Legs : mcancel[l] = 0
    /\ match' = [match EXCEPT !.active = FALSE]
    /\ CancelMatchOrders
    /\ UNCHANGED <<now, jvars, fvars, tvars, bvars, price_call, start_pc, lvars>>

\* time.time() moves on while the process runs.
ClockTick == Running /\ Tick

-----------------------------------------------------------------------------
(* The order-lifecycle specification: one match, concurrent evaluations,    *)
(* gateway calls that can fail, the kill switch and the termination paths.  *)

Book(best, second, qty) == [best |-> best, second |-> second, qty |-> qty]

\* Every leg sees the same top of book.
LifeBooks == { [l \in Legs |-> Book(20, 19, 5)], [l \in Legs |-> Book(40, 20, 5)] }
LifeOdds == { <<150, 300>> }
LifeUpdates == { [NoUpdate EXCEPT !.inventory = 2] }
CancelOutcomes == {"ok", "rejected", "raises"}
PlaceOutcomes == {"accepted", "lost", "rejected"}

Init ==
    /\ now = 0
    /\ fills_tbl = <<>>
    /\ pnl_matches = [m \in MatchIds |-> NoMatchRow]
    /\ hedges = <<>>
    /\ last_insert = NoInsert
    /\ pnl_out = NoPnl
    /\ match = NoMatch
    /\ QuotingIdle
    /\ StreamIdle

Next ==
    \/ ~match.present /\ AddMatch(LifeOdds, {25}, {2}, {0}, {MaxTime})
    \/ ApiStartMatch(LifeBooks)
    \/ OnOrderbookChange(LifeBooks)
    \/ ApiUpdateSettings(LifeUpdates, LifeBooks)
    \/ ApiStopMatch
    \/ McancelReturn(CancelOutcomes)
    \/ CancelReturn(CancelOutcomes)
    \/ PlaceReturn(PlaceOutcomes)
    \/ WaiterStart
    \/ ExchangeFill
    \/ OnFill
    \/ OnPositionChange({0, 2})
    \/ ApiKillAll
    \/ Settled /\ SignalHandler
    \/ Settled /\ LifespanShutdown
    \/ AtExit
    \/ TradingLoopCheck
    \/ ClockTick

Spec == Init /\ [][Next]_vars

-----------------------------------------------------------------------------
(* The quoting specification: odds, settings and books over wider values,   *)
(* one evaluation at a time, gateway calls that succeed or are refused.     *)

QuoteOdds == { <<102, 378>>, <<101, 500000>> }
QuoteFeed == { <<140, 280>> }
QuoteEdges == {0, 25}
QuoteBooks ==
    { [l \in Legs |-> b] : b \in {Book(0, 0, 0), Book(30, 29, 5), Book(99, 98, 5)} }
QuoteUpdates ==
    { [NoUpdate EXCEPT !.edge = 0], [NoUpdate EXCEPT !.odds = <<102, 378>>],
      [NoUpdate EXCEPT !.inventory = 0 - 2] }

QuoteNext ==
    \/ ~match.present /\ AddMatch(QuoteOdds, QuoteEdges, {2}, {0}, {None})
    \/ ApiUpdateOdds(QuoteOdds)
    \/ ApiRefreshOdds(QuoteFeed)
    \/ Quiet /\ ApiUpdateSettings(QuoteUpdates, QuoteBooks)
    \/ Quiet /\ ApiStartMatch(QuoteBooks)
    \/ Quiet /\ OnOrderbookChange(QuoteBooks)
    \/ CancelReturn({"ok"})
    \/ PlaceReturn({"accepted", "rejected"})
    \/ ClockTick

SpecQuote == Init /\ [][QuoteNext]_vars

-----------------------------------------------------------------------------
(* The fill specification: the orders of one match are executed and the     *)
(* stream delivers each fill message at least once.                         *)

\* The stream delivers again the message of a fill the journal already holds
\* (a redelivery after a reconnect).
StreamRedeliver ==
    /\ Running
    /\ match.present
    /\ fill_queue = <<>>
    /\ \E i \in 1..Len(fills_tbl) : \E l \in Legs :
        LET r == fills_tbl[i]
        IN  /\ r.match_id = "M1" /\ LegTicker(l) = r.ticker /\ LegSide(l) = r.side
            /\ match.count_long_a + match.count_long_b + r.count <= MaxLedger
            /\ fill_queue' = Append(fill_queue, [trade_id |-> r.fill_id, leg |-> l,
                                                 price |-> r.price, count |-> r.count])
    /\ UNCHANGED <<now, jvars, match, orders, overbid_since, pou, waiting, mcancel, resting,
                   next_order_id, next_trade_id, tvars, bvars, price_call, start_pc, lvars>>

FillNext ==
    \/ ~match.present /\ AddMatch(LifeOdds, {25}, {2}, {0}, {None})
    \/ Quiet /\ ApiStartMatch(LifeBooks)
    \/ Quiet /\ OnOrderbookChange(LifeBooks)
    \/ CancelReturn({"ok"})
    \/ PlaceReturn({"accepted"})
    \/ ExchangeFill
    \/ StreamRedeliver
    \/ OnFill

SpecFill == Init /\ [][FillNext]_vars

-----------------------------------------------------------------------------
(* The retest specification: one match whose orders keep resting while the  *)
(* clock runs past sticky_reset_secs, evaluated one book event at a time.   *)

\* The book before our orders; the book with our order of 2 alone at the top,
\* one cent above the second level; and that book with a competitor at 25 on
\* the keys other than the first.
RetestBooks ==
    { [l \in Legs |-> Book(20, 19, 5)], [l \in Legs |-> Book(21, 20, 2)],
      [l \in Legs |-> IF l = "a_yes" THEN Book(21, 20, 2) ELSE Book(25, 20, 5)] }

\* time.time() moves on, further than in the other specifications.
LongTick ==
    /\ Running
    /\ now < MaxLongTime
    /\ now' = now + 1
    /\ UNCHANGED <<jvars, qvars, bvars, price_call, start_pc, lvars>>

RetestNext ==
    \/ ~match.present /\ AddMatch(LifeOdds, {25}, {2}, {0}, {None})
    \/ Quiet /\ ApiStartMatch(RetestBooks)
    \/ Quiet /\ OnOrderbookChange(RetestBooks)
    \/ CancelReturn({"ok"})
    \/ PlaceReturn({"accepted"})
    \/ LongTick

SpecRetest == Init /\ [][RetestNext]_vars

-----------------------------------------------------------------------------
(* The periodic specification: trading_loop's rounds and the clock beside   *)
(* book events that may or may not come. Every round of the loop and every  *)
(* gateway call that was started is eventually run.                         *)

\* The book before our orders, and that book with a competitor at 40 on the
\* keys other than the first.
TickBooks ==
    { [l \in Legs |-> Book(20, 19, 5)],
      [l \in Legs |-> IF l = "a_yes" THEN Book(20, 19, 5) ELSE Book(40, 20, 5)] }

TickNext ==
    \/ ~match.present /\ AddMatch(LifeOdds, {25}, {2}, {0}, {None, MaxTime})
    \/ Quiet /\ ApiStartMatch(TickBooks)
    \/ Quiet /\ OnOrderbookChange(TickBooks)
    \/ McancelReturn({"ok"})
    \/ CancelReturn({"ok"})
    \/ PlaceReturn({"accepted"})
    \/ TradingLoopCheck
    \/ ClockTick

SpecTick ==
    /\ Init /\ [][TickNext]_vars
    /\ WF_vars(TradingLoopCheck) /\ WF_vars(ClockTick)
    /\ WF_vars(McancelReturn({"ok"})) /\ WF_vars(CancelReturn({"ok"}))
    /\ WF_vars(PlaceReturn({"accepted"}))

-----------------------------------------------------------------------------
(* The start specification: api_start_match and api_start_all_matches with   *)
(* their await of the stream subscription, beside stop, the periodic check,  *)
(* book events and the clock.                                                *)

StartNext ==
    \/ ~match.present /\ AddMatch(LifeOdds, {25}, {2}, {0}, {MaxTime})
    \/ StartMatchBegin
    \/ StartAllBegin
    \/ StartResume(LifeBooks)
    \/ StartSubscribeRaises
    \/ OnOrderbookChange(LifeBooks)
    \/ ApiStopMatch
    \/ TradingLoopCheck
    \/ McancelReturn({"ok"})
    \/ CancelReturn({"ok"})
    \/ PlaceReturn({"accepted"})
    \/ WaiterStart
    \/ ClockTick

SpecStart == Init /\ [][StartNext]_vars

-----------------------------------------------------------------------------
(* The cancel race: orders fill while reconciliations run, every gateway     *)
(* call is answered (no call raises), a cancel of an order that is gone is   *)
(* answered with an error body.                                              *)

RaceNext ==
    \/ ~match.present /\ AddMatch(LifeOdds, {25}, {2}, {0}, {None})
    \/ ApiStartMatch(LifeBooks)
    \/ OnOrderbookChange(LifeBooks)
    \/ ApiUpdateSettings(LifeUpdates, LifeBooks)
    \/ ApiStopMatch
    \/ McancelReturn({"ok", "rejected"})
    \/ CancelReturn({"ok", "rejected"})
    \/ PlaceReturn({"accepted", "rejected"})
    \/ WaiterStart
    \/ ExchangeFill
    \/ OnFill
    \/ ClockTick

SpecRace == Init /\ [][RaceNext]_vars

-----------------------------------------------------------------------------
(* The per-key lock of place_or_update: order_locks, asyncio.Lock's acquire  *)
(* and release, and requests that arrive while others hold or await a lock.  *)

\* Faulty variant of lock_free: a request takes an unlocked lock although
\* a woken waiter has not yet run.
lock_free_unfair(lk, l) == ~lk.locked[l]

\* Lock.acquire's fast path: not locked and no waiter (no waiter is ever
\* cancelled).
lock_free(lk, l) == ~lk.locked[l] /\ lk.waiters[l] = <<>>

\* Lock._wake_up_first: the first waiter's future gets its result.
wake_up_first(lk, l) ==
    IF lk.waiters[l] = <<>> THEN lk.fut_done ELSE lk.fut_done \cup {Head(lk.waiters[l])}

RemoveFrom(seq, r) == SelectSeq(seq, LAMBDA x : x # r)

\* place_or_update, called for key l, up to `async with lock`: the key's lock
\* is created if order_locks has none, then acquired at once or awaited.
PouArrive ==
    /\ \E r \in Reqs, l \in Legs :
        /\ key_locks.pc[r] = "none"
        /\ \A q \in Reqs : q < r => key_locks.pc[q] # "none"
        /\ LET lk == key_locks
               free == lock_free(lk, l)
           IN  key_locks' =
                 [lk EXCEPT !.order_locks[l] = TRUE,
                            !.created[l] = IF lk.order_locks[l] THEN @ ELSE @ + 1,
                            !.key[r] = l,
                            !.arrived[l] = Append(@, r),
                            !.locked[l] = IF free THEN TRUE ELSE @,
                            !.waiters[l] = IF free THEN @ ELSE Append(@, r),
                            !.pc[r] = IF free THEN "critical" ELSE "waiting",
                            !.entered[l] = IF free THEN Append(@, r) ELSE @]
    /\ UNCHANGED <<now, jvars, qvars, bvars, price_call, start_pc, ws_state, summary_out>>

\* The end of `async with lock`: Lock.release.
PouLeave ==
    /\ \E r \in Reqs :
        /\ key_locks.pc[r] = "critical"
        /\ LET l == key_locks.key[r]
               unlocked == [key_locks EXCEPT !.locked[l] = FALSE, !.pc[r] = "done"]
           IN  key_locks' = [unlocked EXCEPT !.fut_done = wake_up_first(unlocked, l)]
    /\ UNCHANGED <<now, jvars, qvars, bvars, price_call, start_pc, ws_state, summary_out>>

\* Lock.acquire after `await fut`: the woken request leaves the waiters and
\* takes the lock.
PouWake ==
    /\ \E r \in Reqs :
        /\ key_locks.pc[r] = "waiting" /\ r \in key_locks.fut_done
        /\ LET l == key_locks.key[r]
           IN  key_locks' =
                 [key_locks EXCEPT !.waiters[l] = RemoveFrom(@, r),
                                   !.fut_done = @ \ {r},
                                   !.locked[l] = TRUE,
                                   !.pc[r] = "critical",
                                   !.entered[l] = Append(@, r)]
    /\ UNCHANGED <<now, jvars, qvars, bvars, price_call, start_pc, ws_state, summary_out>>

LockNext ==
    \/ PouArrive
    \/ PouLeave
    \/ PouWake

SpecLock == Init /\ [][LockNext]_vars

-----------------------------------------------------------------------------
(* The leg targets of update_quotes: an active match whose cost basis and    *)
(* inventory are what earlier fills and position events left, evaluated on   *)
(* books whose best bid lies around each ceiling.                            *)

RebalOdds == { <<143, 333>> }              \* theo 70.0 / 30.0
RebalEdges == {3, 30}                      \* tenths of a cent
RebalInventories == {0 - 2, 0, 2}
RebalBasisA == { <<0, 0>>, <<110, 2>>, <<130, 2>>, <<140, 2>> }
RebalBasisB == { <<0, 0>>, <<40, 2>> }
RebalBooks ==
    { [l \in Legs |-> b] : b \in {Book(0, 0, 0), Book(26, 25, 5), Book(27, 26, 5),
                                  Book(31, 30, 5), Book(32, 31, 5), Book(42, 41, 5)} }

RebalInit ==
    /\ now = 0
    /\ fills_tbl = <<>>
    /\ pnl_matches = [m \in MatchIds |-> NoMatchRow]
    /\ hedges = <<>>
    /\ last_insert = NoInsert
    /\ pnl_out = NoPnl
    /\ \E o \in RebalOdds, e \in RebalEdges, i \in RebalInventories,
          ba \in RebalBasisA, bb \in RebalBasisB :
         \E theo \in calculate_theo(o[1], o[2]) :
            match = [NewMatch(o[1], o[2], theo, e, 2, 2, i, None) EXCEPT
                        !.active = TRUE,
                        !.cost_long_a = ba[1], !.count_long_a = ba[2],
                        !.cost_long_b = bb[1], !.count_long_b = bb[2]]
    /\ QuotingIdle
    /\ StreamIdle

RebalNext ==
    \/ OnOrderbookChange(RebalBooks)
    \/ CancelReturn({"ok"})
    \/ PlaceReturn({"accepted"})
    \/ WaiterStart
    \/ ClockTick

SpecRebal == RebalInit /\ [][RebalNext]_vars

-----------------------------------------------------------------------------
(* The pricer: calculate_adaptive_price of mm.py and of rrq_prx_mm.py, a pure
   function, applied once to each argument tuple of a bounded set. *)

PricerTheos == {5, 300, 323, 605, 995}     \* tenths of a cent
PricerEdges == {3, 10}                     \* tenths of a cent
PricerBests == {0, 29, 30, 31, 32, 60, 62, 100}
PricerSeconds == {0, 28, 100}
PricerCurrents == {None, 29, 30, 31, 32, 60, 62}
PricerQtys == {0, 5, 12}
PricerSizes == {5}

PricerCalls ==
    [called : {FALSE}, module : {"mm", "rrq_prx_mm"}, side : {"bid", "ask"},
     theo : PricerTheos, best_price : PricerBests, second_price : PricerSeconds,
     edge_min : PricerEdges, our_current : PricerCurrents, sticky_ceiling : BOOLEAN,
     is_retest : BOOLEAN, best_qty : PricerQtys, our_size : PricerSizes,
     must_quote : {"absent", "False", "True"}, out : {0}]

PricerInit ==
    /\ now = 0
    /\ fills_tbl = <<>>
    /\ pnl_matches = [m \in MatchIds |-> NoMatchRow]
    /\ hedges = <<>>
    /\ last_insert = NoInsert
    /\ pnl_out = NoPnl
    /\ match = NoMatch
    /\ QuotingIdle
    /\ orderbooks = EmptyCache
    /\ book_state = EmptyBook
    /\ book_msg = NoBookMsg
    /\ price_call \in PricerCalls
    /\ start_pc = "idle"
    /\ key_locks = NoLocks
    /\ ws_state = NoStream
    /\ summary_out = NoSummary

\* mm.calculate_adaptive_price(...)
CallMmPricer ==
    /\ ~price_call.called
    /\ price_call.module = "mm"
    /\ price_call' = [price_call EXCEPT !.called = TRUE, !.out = mm_call(price_call)]
    /\ UNCHANGED <<jvars, ovars, fvars, tvars, qvars, now, bvars, start_pc, lvars>>

\* rrq_prx_mm.calculate_adaptive_price(...)
CallRrqPrxPricer ==
    /\ ~price_call.called
    /\ price_call.module = "rrq_prx_mm"
    /\ price_call' = [price_call EXCEPT !.called = TRUE, !.out = rrq_prx_call(price_call)]
    /\ UNCHANGED <<jvars, ovars, fvars, tvars, qvars, now, bvars, start_pc, lvars>>

PricerNext ==
    \/ CallMmPricer
    \/ CallRrqPrxPricer

SpecPricer == PricerInit /\ [][PricerNext]_vars

-----------------------------------------------------------------------------
(* The streamed book: orderbook_snapshot and orderbook_delta messages of one
   ticker, applied by _handle_message in the order received.  No match is
   registered, so the callbacks the handler invokes find no market to quote. *)

\* The lists of levels a snapshot can carry for one side: distinct prices in
\* any order, each with a positive quantity.
LevelLists(ps) ==
    UNION { { s \in [1..n -> ps \X (1..MaxQty)] :
                \A i, j \in 1..n : i # j => s[i][1] # s[j][1] } :
            n \in 0..Cardinality(ps) }

YesLevelLists == LevelLists(BookPrices["yes"])
NoLevelLists == LevelLists(BookPrices["no"])

\* The quantity a list of levels gives for a price.
QtyIn(levels, p) ==
    IF FindLevel(levels, p) = 0 THEN 0 ELSE levels[FindLevel(levels, p)][2]

BookInit ==
    /\ now = 0
    /\ fills_tbl = <<>>
    /\ pnl_matches = [m \in MatchIds |-> NoMatchRow]
    /\ hedges = <<>>
    /\ last_insert = NoInsert
    /\ pnl_out = NoPnl
    /\ match = NoMatch
    /\ QuotingIdle
    /\ StreamIdle

\* _handle_message, type orderbook_snapshot: both lists are replaced by the
\* levels of the message.
HandleSnapshot ==
    \E ys \in YesLevelLists, ns \in NoLevelLists :
        /\ orderbooks' = [yes |-> ys, no |-> ns]
        /\ book_state' = [sd \in BookSides |->
                            [p \in BookPrices[sd] |->
                                QtyIn(IF sd = "yes" THEN ys ELSE ns, p)]]
        /\ book_msg' = [kind |-> "snapshot", popped |-> FALSE]
        /\ UNCHANGED <<jvars, ovars, fvars, tvars, qvars, now, price_call, start_pc, lvars>>

\* _handle_message, type orderbook_delta: the exchange changes one level by
\* delta and the handler applies the same delta to its list.
HandleDelta ==
    \E sd \in BookSides :
      \E p \in BookPrices[sd], d \in ((0 - MaxQty)..MaxQty) \ {0} :
        /\ book_state[sd][p] + d \in 0..MaxQty
        /\ orderbooks' = [orderbooks EXCEPT ![sd] = handle_delta_side(@, p, d)]
        /\ book_state' = [book_state EXCEPT ![sd][p] = @ + d]
        /\ book_msg' = [kind |-> "delta", popped |-> book_state[sd][p] + d = 0]
        /\ UNCHANGED <<jvars, ovars, fvars, tvars, qvars, now, price_call, start_pc, lvars>>

BookNext ==
    \/ HandleSnapshot
    \/ HandleDelta

SpecBook == BookInit /\ [][BookNext]_vars

-----------------------------------------------------------------------------
(* src/mm.py: the connection of KalshiWebSocket. trading_loop connects and  *)
(* starts listen() as a task; the API handlers subscribe and unsubscribe;   *)
(* the exchange streams messages of the tickers subscribed on the           *)
(* connection and may close it. The exchange accepts every connection.      *)

StreamTickers == {"TA", "TB"}

\* trading_loop: await ws_client.connect(); asyncio.create_task(ws_client.listen())
WsConnectAndListen ==
    /\ ws_state.ws = "none"
    /\ ws_state' = [ws_state EXCEPT !.ws = "open", !.listen = "iterating"]
    /\ UNCHANGED <<now, jvars, qvars, bvars, price_call, start_pc, key_locks, summary_out>>

\* subscribe(tickers) on an open connection: the new tickers are sent and added.
WsSubscribe ==
    \E ts \in (SUBSET StreamTickers) \ {{}} :
        LET new_tickers == ts \ ws_state.subscribed_tickers
        IN  /\ ws_state.ws = "open"
            /\ new_tickers # {}
            /\ ws_state' = [ws_state EXCEPT !.subscribed_tickers = @ \cup new_tickers,
                                            !.served = @ \cup new_tickers]
            /\ UNCHANGED <<now, jvars, qvars, bvars, price_call, start_pc, key_locks, summary_out>>

\* unsubscribe(tickers) on an open connection: the tickers are dropped with
\* their cached books.
WsUnsubscribe ==
    \E ts \in (SUBSET StreamTickers) \ {{}} :
        LET to_unsub == ts \cap ws_state.subscribed_tickers
        IN  /\ ws_state.ws = "open"
            /\ to_unsub # {}
            /\ ws_state' = [ws_state EXCEPT !.subscribed_tickers = @ \ to_unsub,
                                            !.served = @ \ to_unsub,
                                            !.orderbooks = @ \ to_unsub]
            /\ UNCHANGED <<now, jvars, qvars, bvars, price_call, start_pc, key_locks, summary_out>>

\* The exchange sends a book message of a ticker subscribed on the connection.
WsReceive ==
    \E t \in ws_state.served :
        /\ ws_state.ws = "open"
        /\ Len(ws_state.inbox) < MaxInbox
        /\ ws_state' = [ws_state EXCEPT !.inbox = Append(@, t)]
        /\ UNCHANGED <<now, jvars, qvars, bvars, price_call, start_pc, key_locks, summary_out>>

\* listen(): one round of `async for message in self.ws`, _handle_message
\* caching the book of the message's ticker and calling the callbacks.
WsHandleMessage ==
    /\ ws_state.listen = "iterating"
    /\ ws_state.ws = "open"
    /\ ws_state.inbox # <<>>
    /\ ws_state' = [ws_state EXCEPT !.inbox = Tail(@),
                                    !.orderbooks = @ \cup {Head(ws_state.inbox)}]
    /\ UNCHANGED <<now, jvars, qvars, bvars, price_call, start_pc, key_locks, summary_out>>

\* The connection closes: what it had received and not delivered is lost.
WsDisconnect ==
    /\ ws_state.ws = "open"
    /\ ws_state' = [ws_state EXCEPT !.ws = "closed", !.inbox = <<>>, !.served = {},
                                    !.before = ws_state.subscribed_tickers]
    /\ UNCHANGED <<now, jvars, qvars, bvars, price_call, start_pc, key_locks, summary_out>>

\* listen(): the iteration raises ConnectionClosed; reconnect() is awaited and
\* sleeps for a second.
WsConnectionClosed ==
    /\ ws_state.listen = "iterating"
    /\ ws_state.ws = "closed"
    /\ ws_state' = [ws_state EXCEPT !.listen = "sleeping"]
    /\ UNCHANGED <<now, jvars, qvars, bvars, price_call, start_pc, key_locks, summary_out>>

\* reconnect() after its sleep: the tickers are remembered, the set and the
\* cache cleared, connect() awaited.
WsReconnectClear ==
    /\ ws_state.listen = "sleeping"
    /\ ws_state' = [ws_state EXCEPT !.tickers = ws_state.subscribed_tickers,
                                    !.subscribed_tickers = {},
                                    !.orderbooks = {},
                                    !.listen = "connecting"]
    /\ UNCHANGED <<now, jvars, qvars, bvars, price_call, start_pc, key_locks, summary_out>>

\* reconnect() once connect() returned: the remembered tickers are subscribed
\* on the new connection; reconnect() returns, and listen() with it.
WsReconnectSubscribe ==
    /\ ws_state.listen = "connecting"
    /\ ws_state' = [ws_state EXCEPT !.ws = "open", !.inbox = <<>>,
                                    !.subscribed_tickers = @ \cup ws_state.tickers,
                                    !.served = ws_state.tickers,
                                    !.listen = "returned"]
    /\ UNCHANGED <<now, jvars, qvars, bvars, price_call, start_pc, key_locks, summary_out>>

StreamNext ==
    \/ WsConnectAndListen
    \/ WsSubscribe
    \/ WsUnsubscribe
    \/ WsReceive
    \/ WsHandleMessage
    \/ WsDisconnect
    \/ WsConnectionClosed
    \/ WsReconnectClear
    \/ WsReconnectSubscribe

\* The listen task is scheduled whenever it can run.
SpecStream ==
    /\ Init /\ [][StreamNext]_vars
    /\ WF_vars(WsHandleMessage) /\ WF_vars(WsConnectionClosed)
    /\ WF_vars(WsReconnectClear) /\ WF_vars(WsReconnectSubscribe)

-----------------------------------------------------------------------------
(* Claims about the quoting core *)

\* C1: at every reachable state at most one order placed by the process is
\* resting for any order key, in the local resting-order map (a dict, one
\* entry per key) and at the exchange.
C1_OneRestingPerKey ==
    \A l \in Legs : Cardinality({o \in resting : o.leg = l}) <= 1

\* C2: every entry stored in the resting-order map has 1 <= price <= 99.
C2_StoredPriceInRange ==
    \A l \in Legs : orders[l] # NoOrder => (1 <= orders[l].price /\ orders[l].price <= 99)

\* C3: for every active match at every instant theo_A + theo_B == 100 (1000
\* tenths of a cent).
C3_TheosSumTo100 ==
    (match.present /\ match.active) => match.theo_a + match.theo_b = 1000

\* A step that runs an emergency cancel: the kill endpoint, or a termination
\* path that gets past the one-shot flag.
EmergencyCancelStep ==
    \/ ApiKillAll
    \/ ~shutdown_done /\ (SignalHandler \/ LifespanShutdown \/ AtExit)

\* C4: after an emergency cancel that ran with no place_or_update and no
\* cancel_match_orders in flight, the exchange holds no resting order of the
\* account.
C4_ZeroRestingAfterEmergencyCancel ==
    [][(Quiet /\ EmergencyCancelStep) => resting' = {}]_vars

\* C5: once the process has exited, the emergency-cancel routine has run
\* exactly once, and that run called cancel_order on every order id of the
\* local resting-order map and on every order id the listing returned.
C5_OneRunAttemptsEveryOrder ==
    phase = "exited" => (emergency_runs = 1 /\ term_known \subseteq attempted)

-----------------------------------------------------------------------------
(* Claims about the journal *)

\* C6: for every fill and every journal state, inserting the same fill a second
\* time (at the same or a later clock) leaves the fills table exactly as the
\* first insertion left it: the same rows with the same column values.
C6_InsertFillIdempotent ==
    \A a \in JournalFillArgs(now) : \A t2 \in now..MaxTime :
        insert_fill_tbl(insert_fill_tbl(fills_tbl, a, now), a, t2)
            = insert_fill_tbl(fills_tbl, a, now)

\* A fill has just been inserted a second time with the values already stored.
C6_Witness == last_insert.called /\ last_insert.repeated /\ now > 0

\* C7 as stated: in every step each stored fill keeps its ticker, side, price,
\* count, fee and created_time, and a match_id that is not null keeps its value.
C7_FillOnlyGainsMatchId ==
    [][\A i \in 1..Len(fills_tbl) :
          /\ i <= Len(fills_tbl')
          /\ fills_tbl'[i].fill_id = fills_tbl[i].fill_id
          /\ fills_tbl'[i].ticker = fills_tbl[i].ticker
          /\ fills_tbl'[i].side = fills_tbl[i].side
          /\ fills_tbl'[i].price = fills_tbl[i].price
          /\ fills_tbl'[i].count = fills_tbl[i].count
          /\ fills_tbl'[i].fee_cost = fills_tbl[i].fee_cost
          /\ fills_tbl'[i].created_time = fills_tbl[i].created_time
          /\ (fills_tbl[i].match_id # NULL
                => fills_tbl'[i].match_id = fills_tbl[i].match_id)]_vars

\* C8 as stated: insert_fill returns True exactly when it inserted a row, and
\* False when a fill with that id already existed.
C8_ReturnTellsInserted ==
    last_insert.called =>
        /\ last_insert.ret = last_insert.inserted
        /\ (last_insert.existed => ~last_insert.ret)

-----------------------------------------------------------------------------
(* Claims about calculate_match_pnl *)

\* The fills of match m in chronological order, defined by rank: a row comes
\* before another when it is older, or as old and stored earlier.
MatchIdx(m) == {i \in 1..Len(fills_tbl) : fills_tbl[i].match_id = m}

Before(i, j) ==
    \/ fills_tbl[i].created_time < fills_tbl[j].created_time
    \/ fills_tbl[i].created_time = fills_tbl[j].created_time /\ i < j

Chronological(m) ==
    [k \in 1..Cardinality(MatchIdx(m)) |->
        fills_tbl[CHOOSE i \in MatchIdx(m) :
                    Cardinality({j \in MatchIdx(m) : Before(j, i)}) = k - 1]]

LongAPurchases(m) ==
    SelectSeq(Chronological(m),
              LAMBDA f : \/ f.ticker = pnl_matches[m].ticker_a /\ f.side = "yes"
                         \/ f.ticker = pnl_matches[m].ticker_b /\ f.side = "no")

LongBPurchases(m) ==
    SelectSeq(Chronological(m),
              LAMBDA f : \/ f.ticker = pnl_matches[m].ticker_b /\ f.side = "yes"
                         \/ f.ticker = pnl_matches[m].ticker_a /\ f.side = "no")

\* One price per contract, in FIFO order.
RECURSIVE UnitPrices(_)
UnitPrices(fs) ==
    IF fs = <<>> THEN <<>>
    ELSE [j \in 1..Head(fs).count |-> Head(fs).price] \o UnitPrices(Tail(fs))

CostOfFirst(fs, n) == SumSeq(SubSeq(UnitPrices(fs), 1, n))

\* C9: the pairs and arb that calculate_match_pnl returned are
\* min(total_long_A, total_long_B) and 100*pairs less the cost of the first
\* `pairs` contracts of each side in FIFO order.
C9_PairsAndArb ==
    (pnl_out.called /\ ~pnl_out.out.error) =>
        LET m == pnl_out.match_id
            A == LongAPurchases(m)
            B == LongBPurchases(m)
            pairs == Min(Len(UnitPrices(A)), Len(UnitPrices(B)))
        IN  /\ pnl_out.out.pairs = pairs
            /\ pnl_out.out.arb = 100 * pairs - CostOfFirst(A, pairs) - CostOfFirst(B, pairs)

\* A call paired two contracts out of at least two long-A fills of different
\* price, the second of which was only partly consumed.
C9_Witness ==
    /\ pnl_out.called /\ ~pnl_out.out.error
    /\ pnl_out.out.pairs = 2
    /\ pnl_out.out.leftover_a = 1
    /\ Len(LongAPurchases(pnl_out.match_id)) = 2
    /\ LongAPurchases(pnl_out.match_id)[1].price # LongAPurchases(pnl_out.match_id)[2].price
    /\ Chronological(pnl_out.match_id) # SelectSeq(fills_tbl, LAMBDA r : r.match_id = pnl_out.match_id)

\* The journal cut down to what belongs to match m.
OnlyFillsOf(m) == SelectSeq(fills_tbl, LAMBDA r : r.match_id = m)
OnlyHedgesOf(m) == SelectSeq(hedges, LAMBDA h : h.match_id = m)
OnlyMatch(m) == [x \in MatchIds |-> IF x = m THEN pnl_matches[x] ELSE NoMatchRow]

\* C10: what calculate_match_pnl returned is a function of the match's own
\* fills, hedges, stored theos and result and of the theo and oracle arguments
\* (the same call on a journal holding nothing else returns the same), and the
\* call changes no table.
C10_PnlPure ==
    /\ [](pnl_out.called =>
            pnl_out.out = calculate_match_pnl(OnlyFillsOf(pnl_out.match_id),
                                              OnlyHedgesOf(pnl_out.match_id),
                                              OnlyMatch(pnl_out.match_id),
                                              pnl_out.match_id, pnl_out.theo_a,
                                              pnl_out.theo_b, pnl_out.get_mid_price))
    /\ [][pnl_out' # pnl_out => UNCHANGED <<fills_tbl, pnl_matches, hedges>>]_vars

\* A call on M1 returned a hedge P&L while the journal also held a hedge and a
\* fill of another match.
C10_Witness ==
    /\ pnl_out.called /\ pnl_out.match_id = "M1" /\ pnl_out.out.hedge # 0
    /\ OnlyHedgesOf("M2") # <<>>
    /\ OnlyFillsOf("M2") # <<>>
    /\ OnlyFillsOf("M1") # <<>>

-----------------------------------------------------------------------------
\* The best price of one side of the exchange's book, 0 when it is empty.
BestOf(q) ==
    IF \E p \in DOMAIN q : q[p] > 0
    THEN CHOOSE p \in DOMAIN q : q[p] > 0 /\ \A r \in DOMAIN q : q[r] > 0 => r <= p
    ELSE 0

\* The next price below the best, 0 when there is none.
SecondOf(q) ==
    IF \E p \in DOMAIN q : q[p] > 0 /\ p < BestOf(q)
    THEN CHOOSE p \in DOMAIN q :
            /\ q[p] > 0 /\ p < BestOf(q)
            /\ \A r \in DOMAIN q : (q[r] > 0 /\ r < BestOf(q)) => r <= p
    ELSE 0

\* C11: after any sequence of snapshot and delta messages applied in receipt
\* order, the top of book get_book returns (best bid, its quantity and the
\* second bid, on the YES and on the NO side) is the top of the book the
\* messages describe; the best is never below the second, and no level whose
\* quantity dropped to zero is still cached.
C11_CachedTopIsBookTop ==
    LET top == parse_book(orderbooks)
    IN  /\ top.best_bid = BestOf(book_state["yes"])
        /\ top.best_bid_qty = (IF BestOf(book_state["yes"]) = 0 THEN 0
                               ELSE book_state["yes"][BestOf(book_state["yes"])])
        /\ top.second_bid = SecondOf(book_state["yes"])
        /\ top.best_no_bid = BestOf(book_state["no"])
        /\ top.best_no_bid_qty = (IF BestOf(book_state["no"]) = 0 THEN 0
                                  ELSE book_state["no"][BestOf(book_state["no"])])
        /\ top.second_no_bid = SecondOf(book_state["no"])
        /\ top.best_bid >= top.second_bid
        /\ top.best_no_bid >= top.second_no_bid
        /\ \A sd \in BookSides : \A i \in 1..Len(orderbooks[sd]) :
              /\ orderbooks[sd][i][2] > 0
              /\ book_state[sd][orderbooks[sd][i][1]] > 0

\* A delta has just removed a level, and the cached YES list holds two levels
\* or more that are not in descending order.
C11_Witness ==
    /\ book_msg.kind = "delta"
    /\ book_msg.popped
    /\ Len(orderbooks["yes"]) >= 2
    /\ orderbooks["yes"][1][1] < orderbooks["yes"][2][1]

-----------------------------------------------------------------------------
\* A completed pricer call whose arguments the signature of its module takes:
\* mm.py's function has no must_quote parameter.
Returned ==
    /\ price_call.called
    /\ price_call.module = "mm" => price_call.must_quote = "absent"

\* The ceiling and the floor as the law states them: floor(theo - edge_min)
\* and ceil(theo + edge_min) + 1.
LawCeiling == (price_call.theo - price_call.edge_min) \div 10
LawFloor == (0 - ((0 - (price_call.theo + price_call.edge_min)) \div 10)) + 1

\* Our order is alone at the top and the evaluation is sticky.
StickyAtTop ==
    /\ Returned
    /\ price_call.our_current # None
    /\ price_call.best_price = price_call.our_current
    /\ price_call.best_qty = price_call.our_size
    /\ price_call.sticky_ceiling /\ ~price_call.is_retest

\* The pricer answers our own price, and place_or_update, given that answer
\* for the resting order of that price and size, calls the gateway for nothing.
HoldsStill ==
    /\ price_call.out = price_call.our_current
    /\ \A id \in 1..MaxOrders, since \in {None, 0} :
          PouDecide([order_id |-> id, price |-> price_call.our_current,
                     count |-> price_call.our_size, placed_at |-> 0],
                    since, price_call.out, price_call.our_size, now).act = "idle"

\* C12 (as stated): for every theo, edge and book, with current == best,
\* best_qty == our_size, sticky and not is_retest the pricer returns current, so
\* the evaluation issues no cancel and no place for the key.
C12_NoFlicker == StickyAtTop => HoldsStill

\* C13: for a bid with current == best, best_qty > our_size and
\* current < ceiling, the pricer returns current + 1.
C13_TieTakesPriority ==
    (/\ Returned
     /\ price_call.side = "bid"
     /\ price_call.our_current # None
     /\ price_call.best_price = price_call.our_current
     /\ price_call.best_qty > price_call.our_size
     /\ price_call.our_current < LawCeiling)
    => price_call.out = price_call.our_current + 1

\* C14: for every bid with best > ceiling and not must_quote, whether we have
\* no order, our order is below the best or our own order is the best, the
\* pricer returns BACK_OFF (-1).
C14_BackOffAboveCeiling ==
    (/\ Returned
     /\ price_call.side = "bid"
     /\ price_call.best_price > LawCeiling
     /\ price_call.must_quote # "True")
    => price_call.out = 0 - 1

\* C15: for every bid with best > ceiling and must_quote the pricer returns
\* the ceiling, for every ask with best < floor and must_quote it returns the
\* floor, and no call fails because must_quote is not a defined input.
C15_MustQuoteAtCeiling ==
    price_call.called =>
        /\ price_call.out \notin {NameError, TypeError}
        /\ (/\ price_call.side = "bid" /\ price_call.must_quote = "True"
            /\ price_call.best_price > LawCeiling)
           => price_call.out = LawCeiling
        /\ (/\ price_call.side = "ask" /\ price_call.must_quote = "True"
            /\ price_call.best_price < LawFloor)
           => price_call.out = LawFloor

\* C16: a numeric price the pricer returns is <= ceiling for a bid and
\* >= floor for an ask, for every input.
C16_PriceWithinBand ==
    (Returned /\ price_call.out \notin {0 - 1, NameError, TypeError}) =>
        /\ price_call.side = "bid" => price_call.out <= LawCeiling
        /\ price_call.side = "ask" => price_call.out >= LawFloor

-----------------------------------------------------------------------------
\* The step is an evaluation of the active match, on one of the books of
\* scenarios, in which place_or_update takes the lock of key l with the target
\* tgt.
Evaluates(scenarios, l, tgt) ==
    /\ pou[l] = IdlePou
    /\ match'.present /\ match'.active
    /\ \E bk \in scenarios :
          /\ UpdateQuotes(match', bk)
          /\ LegTarget(match', orders, l, bk[l], now) = tgt

\* The step takes no gateway call for key l and leaves its order alone.
KeepsOrder(l) == pou'[l] = IdlePou /\ orders'[l] = orders[l] /\ resting' = resting

\* C17: with a resting order, the first BACK_OFF evaluation records
\* overbid_since and keeps the order; later ones keep it while
\* now - overbid_since < overbid_cancel_delay; the first one with
\* now - overbid_since >= overbid_cancel_delay cancels it; with no resting
\* order a BACK_OFF evaluation does nothing.
C17_OverbidHysteresis ==
    [][\A l \in Legs :
        /\ Evaluates(QuoteBooks, l, 0 - 1) =>
            /\ (orders[l] # NoOrder /\ overbid_since[l] = None) =>
                    (overbid_since'[l] = now /\ KeepsOrder(l))
            /\ (/\ orders[l] # NoOrder /\ overbid_since[l] # None
                /\ Elapsed(overbid_since[l], now) < overbid_cancel_delay) =>
                    (overbid_since'[l] = overbid_since[l] /\ KeepsOrder(l))
            /\ (/\ orders[l] # NoOrder /\ overbid_since[l] # None
                /\ Elapsed(overbid_since[l], now) >= overbid_cancel_delay) =>
                    (/\ pou'[l].pc = "cancel_backoff"
                     /\ pou'[l].order_id = orders[l].order_id)
            /\ orders[l] = NoOrder => KeepsOrder(l)
        /\ (pou[l].pc = "cancel_backoff" /\ pou[l].target = 0 - 1 /\ pou'[l] = IdlePou) =>
            /\ orders'[l] = NoOrder
            /\ pou[l].order_id \notin RestingIds(resting')
      ]_vars

\* The cancel of an order overbid for the whole delay is on its way.
C17_Witness ==
    \E l \in Legs :
        /\ pou[l].pc = "cancel_backoff" /\ pou[l].target = 0 - 1
        /\ overbid_since[l] # None
        /\ Elapsed(overbid_since[l], now) >= overbid_cancel_delay

\* C18: when a reconciliation with target GATED (-2) completes, the key has no
\* map entry and no overbid-delay state, whatever its state before.
C18_GatedClearsKey ==
    [][\A l \in Legs :
        /\ (pou[l].pc = "cancel_backoff" /\ pou[l].target = 0 - 2 /\ pou'[l] = IdlePou) =>
            (orders'[l] = NoOrder /\ overbid_since'[l] = None)
        /\ (Evaluates(LifeBooks, l, 0 - 2) /\ pou'[l] = IdlePou) =>
            (orders'[l] = NoOrder /\ overbid_since'[l] = None)
      ]_vars

\* C19: for a concrete target T and size n the overbid state is cleared; a
\* resting order already at (T, n) means no gateway call and an unchanged map;
\* otherwise the existing order is cancelled and exactly one new order is
\* placed, and a second identical request after a successful one issues no
\* gateway call.
C19_ConcreteTargetReconciled ==
    [][\A l \in Legs :
        /\ \A T \in 1..99 :
            (/\ Evaluates(LifeBooks, l, T)
             /\ orders[l] # NoOrder /\ orders[l].price = T
             /\ orders[l].count = match'.contracts) =>
                (KeepsOrder(l) /\ overbid_since'[l] = None)
        /\ (pou[l].pc = "place" /\ pou'[l] = IdlePou) =>
            /\ overbid_since'[l] = None
            /\ pou[l].order_id # 0 => pou[l].order_id \notin RestingIds(resting')
            /\ \A o \in resting' \ resting :
                  o.leg = l /\ o.price = pou[l].target /\ o.count = pou[l].count
            /\ Cardinality(resting' \ resting) <= 1
            /\ orders'[l] # orders[l] =>
                  PouDecide(orders'[l], overbid_since'[l], pou[l].target, pou[l].count,
                            now).act = "idle"
      ]_vars

\* The event time of the match has come.
CutOff == match.present /\ match.event_time # None /\ now >= match.event_time

\* C20: once now >= event_time the match is inactive and, when the cancel pass
\* of the cutoff has finished, none of its orders is in the map or resting;
\* an evaluation that starts afterwards issues no place command.
C20_EventTimeCutoff ==
    /\ [][(/\ CutOff /\ ~match.active
           /\ \E l \in Legs : mcancel[l] # 0
           /\ \A l \in Legs : mcancel'[l] = 0) =>
                (orders' = [l \in Legs |-> NoOrder] /\ resting' = {})]_vars
    /\ [][CutOff =>
            \A l \in Legs : (pou[l] = IdlePou /\ ~waiting[l].w) =>
                pou'[l].pc \notin {"place", "cancel_replace"}]_vars

-----------------------------------------------------------------------------
\* C21: a match goes from inactive to active only before its event time; no
\* step, the ones that end at an await inside start and start-all included,
\* makes a match active while now >= event_time.
C21_ActivatedOnlyBeforeEventTime ==
    [][(match.present /\ ~match.active /\ match'.active) =>
            ~(match.event_time # None /\ now >= match.event_time)]_vars

-----------------------------------------------------------------------------
\* breakeven = 99 - ceil(avg_cost) - FEE_BUFFER, for a cost basis of count > 0
\* contracts.
LawBreakeven(cost, count) == 99 - CeilDiv(cost, count) - REBAL_FEE_BUFFER_CENTS

\* Leg l of match m is in rebalance mode: the match is at or beyond the cap of
\* the other side and the breakeven from that side's cost basis is above the
\* leg's theo - edge.
LawRebalMode(m, l) ==
    IF GoesLongA(l)
    THEN /\ m.inventory <= 0 - m.inventory_max
         /\ m.count_long_b > 0
         /\ LawBreakeven(m.cost_long_b, m.count_long_b) * 10 > m.theo_a - m.edge
    ELSE /\ m.inventory >= m.inventory_max
         /\ m.count_long_a > 0
         /\ LawBreakeven(m.cost_long_a, m.count_long_a) * 10 > m.theo_b - m.edge

\* Leg l of match m is gated off by inventory.
LawGated(m, l) ==
    /\ IF GoesLongA(l) THEN m.inventory >= m.inventory_max
                       ELSE m.inventory <= 0 - m.inventory_max
    /\ ~LawRebalMode(m, l)

\* C22: in every evaluation a leg gets target GATED exactly when the match is
\* at the cap of the leg's side and the leg is not in rebalance mode; once the
\* reconciliation of a GATED target has completed, no order of that leg rests.
C22_InventoryGates ==
    [][\A l \in Legs :
        /\ \A bk \in LifeBooks :
              (match'.present /\ match'.active /\ UpdateQuotes(match', bk)) =>
                  (LegTarget(match', orders, l, bk[l], now) = 0 - 2
                      <=> LawGated(match', l))
        /\ (pou[l].pc = "cancel_backoff" /\ pou[l].target = 0 - 2 /\ pou'[l] = IdlePou) =>
              (\A o \in resting' : o.leg # l)
        /\ (Evaluates(LifeBooks, l, 0 - 2) /\ pou'[l] = IdlePou) =>
              (\A o \in resting' : o.leg # l)
      ]_vars

\* The bid ceiling of leg l as the law states it: the breakeven in rebalance
\* mode, floor(theo - edge) otherwise.
LawLegCeiling(m, l) ==
    IF LawRebalMode(m, l)
    THEN IF GoesLongA(l) THEN LawBreakeven(m.cost_long_b, m.count_long_b)
                         ELSE LawBreakeven(m.cost_long_a, m.count_long_a)
    ELSE (IF GoesLongA(l) THEN m.theo_a - m.edge ELSE m.theo_b - m.edge) \div 10

\* What the pricer's laws give a key without an order under ceiling c: back
\* off above the ceiling, otherwise one above the best, within [1, c].
LawFreshBid(c, book) ==
    IF book.best > c THEN 0 - 1 ELSE Max(1, Min(c, book.best + 1))

\* C23: in every evaluation, a leg that holds no order and is not gated is
\* priced under the ceiling breakeven = 99 - ceil(avg cost of the other side) -
\* REBAL_FEE_BUFFER_CENTS when the inventory is at its cap against the leg's
\* side and breakeven > theo - edge, and under floor(theo - edge) otherwise.
C23_RebalanceCeiling ==
    [][\A l \in Legs : \A bk \in RebalBooks :
          (/\ match'.present /\ match'.active /\ UpdateQuotes(match', bk)
           /\ orders[l] = NoOrder
           /\ IF GoesLongA(l) THEN match'.inventory < match'.inventory_max
                              ELSE match'.inventory > 0 - match'.inventory_max)
          => LegTarget(match', orders, l, bk[l], now)
                = LawFreshBid(LawLegCeiling(match', l), bk[l])
      ]_vars

\* The step is on_fill handling a fill of leg l for the present match.
HandlesFill(l) ==
    /\ fill_queue # <<>> /\ Head(fill_queue).leg = l
    /\ fill_queue' = Tail(fill_queue)
    /\ match.present

C25_FillMovesInventory ==
    [][\A l \in Legs : HandlesFill(l) =>
          match'.inventory =
              IF GoesLongA(l) THEN match.inventory + Head(fill_queue).count
                              ELSE match.inventory - Head(fill_queue).count
      ]_vars

\* The order of the map entry of key l still rests on the exchange.
EntryRests(ords, rest, l) ==
    /\ ords[l] # NoOrder
    /\ \E o \in rest : o.order_id = ords[l].order_id

\* C26: a key gets a map entry only when a place call of its reconciliation
\* returns an order id, and on_fill removes an entry only when its order is
\* filled to zero: after a partial fill, with the order still resting, the
\* entry is still there.
C26_EntryLifetime ==
    [][\A l \in Legs :
          /\ (orders[l] = NoOrder /\ orders'[l] # NoOrder) =>
                (pou[l].pc = "place" /\ pou'[l] = IdlePou)
          /\ (HandlesFill(l) /\ EntryRests(orders, resting, l)) => orders'[l] = orders[l]
      ]_vars

\* The step is the return of the place call of key l with a response that
\* carries no order id: the reconciliation ends and the exchange took nothing.
PlaceRejected(l) ==
    /\ pou[l].pc = "place" /\ pou'[l] = IdlePou
    /\ next_order_id' = next_order_id

\* C27: when the place call of a reconciliation returns no order id, the map
\* holds no entry for the key once the reconciliation ends, also when the
\* reconciliation cancelled the key's previous order before placing.
C27_RejectLeavesNoEntry ==
    [][\A l \in Legs : PlaceRejected(l) => orders'[l] = NoOrder]_vars

\* The cancel call of key l's reconciliation did not take effect: the order
\* it named still rests.
CancelFailed(l, rest) ==
    /\ pou[l].order_id # 0
    /\ pou[l].order_id \in RestingIds(rest)

\* C28: when the cancel call of a reconciliation fails, the key's map entry at
\* the end of the reconciliation is the one it began with, whether the cancel
\* stood alone or preceded a place; when the place call fails, an entry that
\* remains refers to an order that rests.
C28_FailedCallKeepsMap ==
    [][\A l \in Legs :
          /\ (pou[l].pc = "cancel_backoff" /\ pou'[l] = IdlePou /\ CancelFailed(l, resting'))
                => orders'[l] = orders[l]
          /\ (pou[l].pc = "place" /\ pou'[l] = IdlePou /\ CancelFailed(l, resting))
                => orders'[l] = orders[l]
          /\ (PlaceRejected(l) /\ orders'[l] # NoOrder) => EntryRests(orders', resting', l)
      ]_vars

\* The order that the reconciliation of key l set out to cancel does not rest:
\* it was filled or cancelled before the call was answered.
CancelledOrderGone(l, rest) ==
    /\ pou[l].order_id # 0
    /\ pou[l].order_id \notin RestingIds(rest)

\* C29: a cancel call for an order that is already gone is treated as a
\* success. Under a GATED or expired BACK_OFF target the reconciliation ends
\* with no entry for the key; under a concrete target it goes on to place and
\* ends without the gone order's entry; cancel_match_orders drops the entry.
C29_CancelOfGoneOrderSucceeds ==
    [][\A l \in Legs :
          /\ (pou[l].pc = "cancel_backoff" /\ pou'[l] = IdlePou
              /\ CancelledOrderGone(l, resting))
                => orders'[l] = NoOrder
          /\ (pou[l].pc = "cancel_replace" /\ pou'[l] # pou[l]
              /\ CancelledOrderGone(l, resting))
                => pou'[l].pc = "place"
          /\ (pou[l].pc = "place" /\ pou'[l] = IdlePou /\ CancelledOrderGone(l, resting))
                => orders'[l].order_id # pou[l].order_id
          /\ (mcancel[l] # 0 /\ mcancel'[l] = 0 /\ mcancel[l] \notin RestingIds(resting))
                => orders'[l] = NoOrder
      ]_vars

\* A reconciliation of key l holds the key's lock across the step, waiting for
\* the answer of its gateway call.
InCriticalSection(l) == pou[l] # IdlePou /\ pou'[l] = pou[l]

\* C30: the map entry of a key changes only in steps of the coroutine that
\* holds the key's lock: while a reconciliation of the key is inside its
\* critical section, no fill handler, cancel_match_orders, kill or shutdown
\* step changes the entry.
C30_MapMutatedUnderLock ==
    [][\A l \in Legs : InCriticalSection(l) => orders'[l] = orders[l]]_vars

IsPrefix(a, b) == Len(a) <= Len(b) /\ \A i \in 1..Len(a) : a[i] = b[i]

\* C31: at most one request of a key is inside `async with lock` at a time,
\* the requests of a key enter it in the order in which they were called, and
\* no key ever gets a second lock object.
C31_OneAtATimeInArrivalOrder ==
    \A l \in Legs :
        /\ Cardinality({r \in Reqs : key_locks.pc[r] = "critical" /\ key_locks.key[r] = l}) <= 1
        /\ IsPrefix(key_locks.entered[l], key_locks.arrived[l])
        /\ key_locks.created[l] <= 1

\* Requests of the two keys are inside their critical sections together, a
\* third request waits behind one of them, and an earlier request of that
\* key has already been through.
C31_Witness ==
    /\ \A l \in Legs : \E r \in Reqs : key_locks.pc[r] = "critical" /\ key_locks.key[r] = l
    /\ \E r \in Reqs : key_locks.pc[r] = "waiting"
    /\ \E l \in Legs : Len(key_locks.entered[l]) >= 2

LawTheo(arg, stored) == IF arg # None THEN arg ELSE IF stored # None THEN stored ELSE 50

\* The cost of the FIFO tail of fs that pairing left: all contracts but the
\* first n.
CostOfRest(fs, n) == CostOfFirst(fs, Len(UnitPrices(fs))) - CostOfFirst(fs, n)

\* C34: calculate_match_pnl returns leftover_a = total_a - pairs and leftover_b
\* = total_b - pairs, at most one of them non-zero; its EV is theo_a *
\* leftover_a + theo_b * leftover_b less the cost of the unpaired FIFO tail of
\* each side; for a settled match its AV is 100 per leftover contract of the
\* winning side less both leftover costs.
C34_LeftoverEvAv ==
    (pnl_out.called /\ ~pnl_out.out.error) =>
        LET m == pnl_out.match_id
            A == LongAPurchases(m)
            B == LongBPurchases(m)
            total_a == Len(UnitPrices(A))
            total_b == Len(UnitPrices(B))
            pairs == Min(total_a, total_b)
            leftover_a == total_a - pairs
            leftover_b == total_b - pairs
            leftover_cost == CostOfRest(A, pairs) + CostOfRest(B, pairs)
            theo_a == LawTheo(pnl_out.theo_a, pnl_matches[m].theo_a)
            theo_b == LawTheo(pnl_out.theo_b, pnl_matches[m].theo_b)
            result_a == pnl_matches[m].result_a
        IN  /\ pnl_out.out.leftover_a = leftover_a
            /\ pnl_out.out.leftover_b = leftover_b
            /\ leftover_a = 0 \/ leftover_b = 0
            /\ pnl_out.out.ev = theo_a * leftover_a + theo_b * leftover_b - leftover_cost
            /\ result_a # NULL =>
                  pnl_out.out.av = (IF result_a = "yes" THEN 100 * leftover_a
                                                        ELSE 100 * leftover_b) - leftover_cost

\* One record per contract of the fills fs, in FIFO order.
RECURSIVE UnitLegs(_)
UnitLegs(fs) ==
    IF fs = <<>> THEN <<>>
    ELSE [j \in 1..Head(fs).count |-> Head(fs)] \o UnitLegs(Tail(fs))

\* The closed pairs of match m: the i-th long-A contract with the i-th long-B
\* contract, its arb and the created_time of the later of its two legs.
ClosedPairs(m) ==
    LET A == UnitLegs(LongAPurchases(m))
        B == UnitLegs(LongBPurchases(m))
    IN  [i \in 1..Min(Len(A), Len(B)) |->
            [arb |-> 100 - A[i].price - B[i].price,
             later |-> Max(A[i].created_time, B[i].created_time)]]

\* The arb of the closed pairs of m whose later leg falls in the bucket `key`.
ArbOfBucket(m, period, key) ==
    LET ps == ClosedPairs(m)
    IN  SumSeq([i \in 1..Len(ps) |->
                   IF get_period_key(period, ps[i].later) = key THEN ps[i].arb ELSE 0])

\* The arb the summary shows in the bucket `key`: 0 when there is no such line.
ArbShown(key) ==
    SumSeq([i \in 1..Len(summary_out.result) |->
               IF summary_out.result[i].period = key THEN summary_out.result[i].arb ELSE 0])

BucketKeys(period) == {get_period_key(period, t) : t \in 0..MaxTime}

MatchesWithFills == {m \in MatchIds : MatchIdx(m) # {}}

\* calculate_match_pnl of match m on the journal, with the stored theos.
MatchPnl(m) == calculate_match_pnl(fills_tbl, hedges, pnl_matches, m, None, None, NoOracle)

\* A field of calculate_match_pnl summed over the matches that have fills.
OverMatches(field) ==
    LET part(m) == IF m \in MatchesWithFills THEN MatchPnl(m)[field] ELSE 0
    IN  part("M1") + part("M2")

\* C33: in the list get_pnl_summary returned, the arb of every closed pair is
\* in the bucket of the later of its two legs, and arb, EV and fees summed
\* over the buckets equal those calculate_match_pnl gives for the same fills
\* and theos, summed over the matches.
C33_SummaryAgreesWithMatchPnl ==
    summary_out.called =>
        LET lines == summary_out.result
        IN  /\ \A key \in BucketKeys(summary_out.period) :
                  ArbShown(key) =
                      ArbOfBucket("M1", summary_out.period, key)
                      + ArbOfBucket("M2", summary_out.period, key)
            /\ SumSeq([i \in 1..Len(lines) |-> lines[i].arb]) = OverMatches("arb")
            /\ SumSeq([i \in 1..Len(lines) |-> lines[i].ev]) = OverMatches("ev")
            /\ SumSeq([i \in 1..Len(lines) |-> lines[i].fees]) = OverMatches("fees")

\* The order of key l has been overbid for overbid_cancel_delay or longer.
OverbidOverdue(l) ==
    /\ match.present /\ match.active
    /\ orders[l] # NoOrder
    /\ overbid_since[l] # None
    /\ Elapsed(overbid_since[l], now) >= overbid_cancel_delay

\* C36: the periodic rounds of trading_loop re-evaluate the active match
\* whether or not a stream event arrives, so that an order that has been
\* overbid for overbid_cancel_delay is eventually cancelled (or the match
\* stopped, or the overbid over) even when the stream stays silent.
C36_SilentOverbidCancelled ==
    \A l \in Legs : OverbidOverdue(l) ~> ~OverbidOverdue(l)

\* C35: once listen() has met the closed connection the client is connected
\* again; its reconnect resets the book cache and leaves subscribed the
\* tickers that were subscribed when the connection closed; and a message
\* received on the new connection is consumed and dispatched.
C35_ReconnectResumes ==
    /\ (ws_state.listen = "sleeping") ~> (ws_state.ws = "open")
    /\ [][WsReconnectClear => ws_state'.orderbooks = {}]_vars
    /\ [][WsReconnectSubscribe => ws_state'.subscribed_tickers = ws_state.before]_vars
    /\ (ws_state.listen = "returned" /\ ws_state.inbox # <<>>) ~> (ws_state.inbox = <<>>)

\* The match is stopped and the request that stopped it has completed.
StopCompleted == match.present /\ ~match.active /\ \A l \in Legs : mcancel[l] = 0

\* The step issues a place command for key l.
IssuesPlace(l) == pou[l].pc # "place" /\ pou'[l].pc = "place"

\* C37: from the completion of api_stop_match or api_kill_all until the match
\* is started again, no step issues a place command for the match and no key
\* of the match is in the resting-order map, whatever evaluation was in
\* flight when the request came.
C37_StoppedMatchStaysFlat ==
    [][(StopCompleted /\ StopCompleted') =>
          \A l \in Legs : ~IssuesPlace(l) /\ orders'[l] = NoOrder]_vars

\* The step is an evaluation of the match in which get_order_info reports the
\* resting order of key l as due for a retest.
RetestEvaluation(l) ==
    /\ orders[l] # NoOrder
    /\ get_order_info(orders, l, now)[2]
    /\ now' = now
    /\ \E tgt \in 1..99 : Evaluates(RetestBooks, l, tgt)

\* C38: a retest evaluation of a key starts a new period of sticky_reset_secs:
\* whether it leaves the order as it is or the order is placed anew, an
\* evaluation that follows at once is no retest.
C38_RetestIsPeriodic ==
    [][\A l \in Legs :
          /\ (RetestEvaluation(l) /\ pou'[l] = IdlePou /\ orders'[l] # NoOrder) =>
                 ~get_order_info(orders', l, now')[2]
          /\ (pou[l].pc = "place" /\ pou'[l] = IdlePou /\ orders'[l] # NoOrder) =>
                 ~get_order_info(orders', l, now')[2]]_vars

\* ceil of the average cost of the side opposite to leg l.
CeilAvgCostAgainst(m, l) ==
    IF GoesLongA(l) THEN CeilDiv(m.cost_long_b, m.count_long_b)
                    ELSE CeilDiv(m.cost_long_a, m.count_long_a)

\* The step is place_or_update storing the order it placed for key l.
StoresPlaced(l) == pou[l].pc = "place" /\ pou'[l] = IdlePou /\ orders'[l] # NoOrder

\* C39: an order placed for a leg that is in rebalance mode has a price p with
\* ceil(average cost of the opposite side) + p + REBAL_FEE_BUFFER_CENTS <= 99,
\* the cost basis being the one the evaluation priced the leg on.
C39_RebalancePairCost ==
    [][\A l \in Legs :
          (StoresPlaced(l) /\ LawRebalMode(match, l)) =>
              CeilAvgCostAgainst(match, l) + orders'[l].price + REBAL_FEE_BUFFER_CENTS <= 99
      ]_vars

\* An order placed in rebalance mode rests at a price above floor(theo - edge)
\* that makes the pair cost exactly 99 less the buffer.
C39_Witness ==
    \E l \in Legs :
        /\ orders[l] # NoOrder
        /\ LawRebalMode(match, l)
        /\ orders[l].price * 10 > (IF GoesLongA(l) THEN match.theo_a ELSE match.theo_b) - match.edge
        /\ CeilAvgCostAgainst(match, l) + orders[l].price + REBAL_FEE_BUFFER_CENTS = 99

\* The rows of the journal that are fills of M1 going long A, or long B.
JournalLong(a_side) ==
    SelectSeq(fills_tbl,
              LAMBDA r : /\ r.match_id = "M1"
                         /\ a_side = IsLongA(r, MatchTickers("M1")[1], MatchTickers("M1")[2]))

JournalCount(a_side) ==
    LET rows == JournalLong(a_side) IN SumSeq([i \in 1..Len(rows) |-> rows[i].count])

JournalCost(a_side) ==
    LET rows == JournalLong(a_side)
    IN  SumSeq([i \in 1..Len(rows) |-> rows[i].count * rows[i].price])

\* C40: once every delivered fill message has been handled, the ledger of the
\* match equals the sums over the distinct fills, by fill id, that the journal
\* holds for it: a fill delivered twice is counted once.
C40_LedgerCountsFillsOnce ==
    (match.present /\ fill_queue = <<>>) =>
        /\ match.count_long_a = JournalCount(TRUE)
        /\ match.cost_long_a = JournalCost(TRUE)
        /\ match.count_long_b = JournalCount(FALSE)
        /\ match.cost_long_b = JournalCost(FALSE)

=============================================================================
